---- MODULE Spec2Model ----
(***************************************************************************)
(* The script interpreter / test sequencer of src/main.py (class           *)
(* TestRunner) as a state machine.                                          *)
(*                                                                          *)
(* A token of a script line is a tuple of pieces (strings): a piece is one *)
(* character where the code looks at characters (value tokens, variable    *)
(* names, quotes of a title) and a whole word elsewhere.  A script line is *)
(* the tuple of its tokens, as line.split() yields them.  Numbers are      *)
(* fixed-point integers in units of 1/Scale.                               *)
(*                                                                          *)
(* The run is split where the code blocks (process.communicate and         *)
(* time.sleep) because an operator interrupt (KeyboardInterrupt) arrives   *)
(* there; every handler is otherwise one atomic step.  The operator sends  *)
(* at most one interrupt, while the run loop (the try block of run) is     *)
(* executing.                                                               *)
(***************************************************************************)
EXTENDS Integers, Sequences, FiniteSets, TLC

\* ---------------------------------------------------------------- bounds
\* Script lines dispatched in one run.
MaxLines == 3

\* ------------------------------------------------------------- constants
\* sys.exit codes of run().
ExitInterrupt == 130
ExitCrash == 1
ExitFailed == 1
ExitPass == 0
\* run() returns without sys.exit when the script file does not exist.
ExitReturn == 0
\* Fixed-point scale: four decimals, the resolution of the report's {:.4f}.
Scale == 10000

\* ---------------------------------------------------------------- tokens
Range(s) == {s[i] : i \in DOMAIN s}

Q == "\""
W(s) == <<s>>

\* The empty dict value None, and the truthiness test `if x:` on it.
None == <<>>
Truthy(x) == x # <<>>

\* str.upper() on a command keyword or configuration key.
UpperPiece(p) ==
    CASE p = "test" -> "TEST"
      [] p = "power_addr" -> "POWER_ADDR"
      [] p = "res_port" -> "RES_PORT"
      [] p = "to" -> "TO"
      [] OTHER -> p

upper(tok) == [i \in DOMAIN tok |-> UpperPiece(tok[i])]

\* str.lower() on the characters of a value token.
LowerPiece(p) ==
    CASE p = "A" -> "a"
      [] p = "M" -> "m"
      [] OTHER -> p

lower(tok) == [i \in DOMAIN tok |-> LowerPiece(tok[i])]

startswith(tok, p) == Len(tok) > 0 /\ tok[1] = p
endswith(tok, p) == Len(tok) > 0 /\ tok[Len(tok)] = p

\* " ".join(words): the words' pieces with a blank piece between words.
RECURSIVE join(_)
join(words) ==
    IF Len(words) = 0 THEN <<>>
    ELSE IF Len(words) = 1 THEN words[1]
    ELSE words[1] \o <<" ">> \o join(Tail(words))

\* str.strip('"'): leading and trailing quote characters removed.
RECURSIVE lstrip(_)
lstrip(s) == IF Len(s) > 0 /\ s[1] = Q THEN lstrip(Tail(s)) ELSE s

RECURSIVE rstrip(_)
rstrip(s) ==
    IF Len(s) > 0 /\ s[Len(s)] = Q THEN rstrip(SubSeq(s, 1, Len(s) - 1)) ELSE s

\* str.strip('"') that removes nothing: a faulty variant.
strip_keeps(s) == s

strip(s) == rstrip(lstrip(s))

\* ---------------------------------------------------------- value parser
DigitVal(c) ==
    CASE c = "0" -> 0 [] c = "1" -> 1 [] c = "2" -> 2 [] c = "3" -> 3
      [] c = "4" -> 4 [] c = "5" -> 5 [] c = "6" -> 6 [] c = "7" -> 7
      [] c = "8" -> 8 [] c = "9" -> 9 [] OTHER -> -1

IsDigits(s) == Len(s) > 0 /\ \A i \in DOMAIN s : DigitVal(s[i]) >= 0

RECURSIVE DigitsVal(_)
DigitsVal(s) ==
    IF Len(s) = 0 THEN 0
    ELSE 10 * DigitsVal(SubSeq(s, 1, Len(s) - 1)) + DigitVal(s[Len(s)])

Pow10(n) == CASE n = 0 -> 1 [] n = 1 -> 10 [] n = 2 -> 100 [] n = 3 -> 1000 [] OTHER -> 10000

\* float(s) for an unsigned or signed decimal literal; any other text raises
\* ValueError (ok = FALSE).  The value is in units of 1/Scale.
Unsigned(s) ==
    LET dots == {i \in DOMAIN s : s[i] = "."} IN
    IF dots = {} THEN
        [ok |-> IsDigits(s), val |-> IF IsDigits(s) THEN DigitsVal(s) * Scale ELSE 0]
    ELSE
        LET d == CHOOSE i \in dots : TRUE
            ip == SubSeq(s, 1, d - 1)
            fp == SubSeq(s, d + 1, Len(s))
            good == /\ Cardinality(dots) = 1
                    /\ Len(ip) + Len(fp) > 0
                    /\ (Len(ip) = 0 \/ IsDigits(ip))
                    /\ (Len(fp) = 0 \/ IsDigits(fp))
                    /\ Len(fp) <= 4
        IN [ok |-> good,
            val |-> IF good
                    THEN DigitsVal(ip) * Scale + DigitsVal(fp) * Pow10(4 - Len(fp))
                    ELSE 0]

float(s) ==
    IF startswith(s, "-")
    THEN LET u == Unsigned(Tail(s)) IN [ok |-> u.ok, val |-> 0 - u.val]
    ELSE Unsigned(s)

\* "ma" in lower_s / "a" in lower_s.
HasMa(s) == \E i \in 1..(Len(s) - 1) : s[i] = "m" /\ s[i + 1] = "a"
HasA(s) == \E i \in DOMAIN s : s[i] = "a"

\* lower_s.replace("ma", "") and lower_s.replace("a", "").
RECURSIVE ReplaceMa(_)
ReplaceMa(s) ==
    IF Len(s) < 2 THEN s
    ELSE IF s[1] = "m" /\ s[2] = "a" THEN ReplaceMa(SubSeq(s, 3, Len(s)))
    ELSE <<s[1]>> \o ReplaceMa(Tail(s))

ReplaceA(s) == SelectSeq(s, LAMBDA c : c # "a")

\* parse_value that tests "a" before "ma": a faulty variant.
parse_value_a_first(vars, val_str) ==
    IF startswith(val_str, "$") THEN
        IF val_str \in DOMAIN vars
        THEN [ok |-> TRUE, val |-> vars[val_str]]
        ELSE [ok |-> FALSE, val |-> 0]
    ELSE IF endswith(val_str, "%") THEN
        LET f == float(SubSeq(val_str, 1, Len(val_str) - 1))
        IN [ok |-> f.ok, val |-> f.val \div 100]
    ELSE IF HasA(lower(val_str)) THEN
        float(ReplaceA(lower(val_str)))
    ELSE IF HasMa(lower(val_str)) THEN
        LET f == float(ReplaceMa(lower(val_str)))
        IN [ok |-> f.ok, val |-> f.val \div 1000]
    ELSE float(val_str)

\* parse_value: [ok, val]; ok = FALSE is the ValueError the code raises.
parse_value(vars, val_str) ==
    IF startswith(val_str, "$") THEN
        IF val_str \in DOMAIN vars
        THEN [ok |-> TRUE, val |-> vars[val_str]]
        ELSE [ok |-> FALSE, val |-> 0]
    ELSE IF endswith(val_str, "%") THEN
        LET f == float(SubSeq(val_str, 1, Len(val_str) - 1))
        IN [ok |-> f.ok, val |-> f.val \div 100]
    ELSE IF HasMa(lower(val_str)) THEN
        LET f == float(ReplaceMa(lower(val_str)))
        IN [ok |-> f.ok, val |-> f.val \div 1000]
    ELSE IF HasA(lower(val_str)) THEN
        float(ReplaceA(lower(val_str)))
    ELSE float(val_str)

\* ------------------------------------------------------- runner (pure part)
\* The fields of a TestRunner, as a record r; each handler below is the
\* function from the runner before the call to the runner after it.

Put(f, k, v) == [x \in (DOMAIN f) \cup {k} |-> IF x = k THEN v ELSE f[x]]

\* An error message: its fixed text (kind) and the tokens and numbers
\* formatted into it.
Msg(kind, toks, nums) == [kind |-> kind, toks |-> toks, nums |-> nums]

\* The text of the exception parse_value raises on token tok.
ExcText(tok) ==
    IF startswith(tok, "$") THEN W("undefined_variable") ELSE W("could_not_convert")

\* f"{id} ({title})"
FailedEntry(id, title) == id \o <<" (">> \o title \o <<")">>

\* `msg not in note`: note is the concatenation of the entries appended so
\* far; an entry is found in it when it was appended before.
MsgInNote(msg, note) == \E i \in DOMAIN note : note[i] = msg

\* The dict current_test_data refers to becomes c; when r.shared the last
\* entry of test_results is that same dict (test_results.append stores a
\* reference) and changes with it.
Store(r, c) ==
    [r EXCEPT !.current_test_data = <<c>>,
              !.test_results = IF r.shared THEN [@ EXCEPT ![Len(@)] = c] ELSE @]

\* error() without the dedup test of the note: a faulty variant.
error_nodedup(r, msg) ==
    LET failed == IF r.current_test_id \notin Range(r.failed_tests)
                  THEN Append(r.failed_tests,
                              FailedEntry(r.current_test_id, r.current_test_title))
                  ELSE r.failed_tests
        r1 == [r EXCEPT !.failed_tests = failed]
    IN IF Truthy(r.current_test_data)
       THEN LET c == r.current_test_data[1] IN
            Store(r1, [c EXCEPT !.result = "FAIL", !.note = Append(c.note, msg)])
       ELSE r1

error(r, msg) ==
    LET failed == IF r.current_test_id \notin Range(r.failed_tests)
                  THEN Append(r.failed_tests,
                              FailedEntry(r.current_test_id, r.current_test_title))
                  ELSE r.failed_tests
        r1 == [r EXCEPT !.failed_tests = failed]
    IN IF Truthy(r.current_test_data)
       THEN LET c == r.current_test_data[1] IN
            Store(r1, [c EXCEPT !.result = "FAIL",
                                !.note = IF ~MsgInNote(msg, c.note)
                                         THEN Append(c.note, msg)
                                         ELSE c.note])
       ELSE r1

NewCase(id, title) ==
    [id |-> id, title |-> title, result |-> "PASS",
     expected |-> <<>>, actual |-> <<>>, note |-> <<>>]

\* cmd_test after its first k statements (k = 4: the whole handler):
\*   1  append the open case to test_results (the list and current_test_data
\*      then share the dict, until statement 4 makes a new one)
\*   2  current_test_id = args[0]          (IndexError when args is empty)
\*   3  current_test_title = " ".join(args[1:]).strip('"')
\*   4  current_test_data = the new case
cmd_test_prefix(r, args, k) ==
    LET r1 == IF k >= 1 /\ Truthy(r.current_test_data)
              THEN [r EXCEPT !.test_results =
                                 Append(r.test_results, r.current_test_data[1]),
                             !.shared = TRUE]
              ELSE r
        r2 == IF k >= 2 THEN [r1 EXCEPT !.current_test_id = args[1]] ELSE r1
        r3 == IF k >= 3
              THEN [r2 EXCEPT !.current_test_title = strip(join(Tail(args)))]
              ELSE r2
    IN IF k >= 4
       THEN [r3 EXCEPT !.current_test_data =
                           <<NewCase(r3.current_test_id, r3.current_test_title)>>,
                       !.shared = FALSE]
       ELSE r3

cmd_test_raises(args) == Len(args) = 0

cmd_test(r, args) == cmd_test_prefix(r, args, 4)

\* cmd_def_var that keeps the value of a name already bound when no
\* initial value is given: a faulty variant.
cmd_def_var_keeps(r, args) ==
    IF Len(args) < 1 THEN error(r, Msg("DEF_VAR missing argument", <<>>, <<>>))
    ELSE IF ~startswith(args[1], "$")
    THEN error(r, Msg("variable name must start with $", <<args[1]>>, <<>>))
    ELSE IF Len(args) >= 2 /\ ~parse_value(r.variables, args[2]).ok
    THEN error(r, Msg("initial value parse failed", <<ExcText(args[2]), args[2]>>, <<>>))
    ELSE LET initial_value == IF Len(args) >= 2
                              THEN parse_value(r.variables, args[2]).val
                              ELSE IF args[1] \in DOMAIN r.variables
                              THEN r.variables[args[1]]
                              ELSE 0
         IN [r EXCEPT !.variables = Put(r.variables, args[1], initial_value)]

cmd_def_var(r, args) ==
    IF Len(args) < 1 THEN error(r, Msg("DEF_VAR missing argument", <<>>, <<>>))
    ELSE IF ~startswith(args[1], "$")
    THEN error(r, Msg("variable name must start with $", <<args[1]>>, <<>>))
    ELSE IF Len(args) >= 2 /\ ~parse_value(r.variables, args[2]).ok
    THEN error(r, Msg("initial value parse failed", <<ExcText(args[2]), args[2]>>, <<>>))
    ELSE LET initial_value == IF Len(args) >= 2
                              THEN parse_value(r.variables, args[2]).val
                              ELSE 0
         IN [r EXCEPT !.variables = Put(r.variables, args[1], initial_value)]

\* cmd_config that stores the key as written: a faulty variant.
cmd_config_keeps_case(r, args) ==
    IF Len(args) < 2 THEN error(r, Msg("CONFIG missing argument", <<>>, <<>>))
    ELSE [r EXCEPT !.config = Put(r.config, args[1], args[2])]

cmd_config(r, args) ==
    IF Len(args) < 2 THEN error(r, Msg("CONFIG missing argument", <<>>, <<>>))
    ELSE [r EXCEPT !.config = Put(r.config, upper(args[1]), args[2])]

\* cmd_set_var without the test that the variable is defined: a faulty
\* variant.
cmd_set_var_creates(r, args) ==
    IF Len(args) # 2 THEN error(r, Msg("SET_VAR format error", <<>>, <<>>))
    ELSE IF ~startswith(args[1], "$")
    THEN error(r, Msg("variable name must start with $", <<args[1]>>, <<>>))
    ELSE IF ~parse_value(r.variables, args[2]).ok
    THEN error(r, Msg("variable set failed", <<ExcText(args[2]), args[2]>>, <<>>))
    ELSE [r EXCEPT !.variables =
                       Put(r.variables, args[1], parse_value(r.variables, args[2]).val)]

cmd_set_var(r, args) ==
    IF Len(args) # 2 THEN error(r, Msg("SET_VAR format error", <<>>, <<>>))
    ELSE IF ~startswith(args[1], "$")
    THEN error(r, Msg("variable name must start with $", <<args[1]>>, <<>>))
    ELSE IF args[1] \notin DOMAIN r.variables
    THEN error(r, Msg("variable undefined", <<args[1]>>, <<>>))
    ELSE IF ~parse_value(r.variables, args[2]).ok
    THEN error(r, Msg("variable set failed", <<ExcText(args[2]), args[2]>>, <<>>))
    ELSE [r EXCEPT !.variables =
                       Put(r.variables, args[1], parse_value(r.variables, args[2]).val)]

\* The first exception raised while the first n arguments are read and
\* parsed in order: IndexError for a missing argument, ValueError for one
\* parse_value rejects; <<>> when there is none.
RECURSIVE FirstExc(_, _, _, _)
FirstExc(vars, args, i, n) ==
    IF i > n THEN <<>>
    ELSE IF i > Len(args) THEN <<W("IndexError")>>
    ELSE IF ~parse_value(vars, args[i]).ok THEN <<ExcText(args[i]), args[i]>>
    ELSE FirstExc(vars, args, i + 1, n)

\* Only the expected entry is appended: a faulty variant.
AddRow_expected_only(r, exp, act) ==
    IF Truthy(r.current_test_data)
    THEN LET c == r.current_test_data[1] IN
         Store(r, [c EXCEPT !.expected = Append(c.expected, exp)])
    ELSE r

\* A row is appended to the open case's expected and actual lists.
AddRow(r, exp, act) ==
    IF Truthy(r.current_test_data)
    THEN LET c == r.current_test_data[1] IN
         Store(r, [c EXCEPT !.expected = Append(c.expected, exp),
                            !.actual = Append(c.actual, act)])
    ELSE r

\* cmd_check_range where a passing check marks the case PASS: a faulty variant.
cmd_check_range_resets(r, args) ==
    LET exc == FirstExc(r.variables, args, 1, 3) IN
    IF exc # <<>> THEN error(r, Msg("CHECK_RANGE exception", exc, <<>>))
    ELSE
        LET real_val == parse_value(r.variables, args[1]).val
            expect_val == parse_value(r.variables, args[2]).val
            tol == parse_value(r.variables, args[3]).val
            tol_abs == IF endswith(args[3], "%") THEN (expect_val * tol) \div Scale ELSE tol
            lower_b == expect_val - tol_abs
            upper_b == expect_val + tol_abs
            rr == AddRow(r, <<"range", lower_b, upper_b>>, real_val)
        IN IF lower_b <= real_val /\ real_val <= upper_b
           THEN IF Truthy(rr.current_test_data)
                THEN Store(rr, [rr.current_test_data[1] EXCEPT !.result = "PASS"])
                ELSE rr
           ELSE error(rr, Msg("FAIL out of range", <<args[1], args[2], args[3]>>,
                              <<real_val, lower_b, upper_b>>))

\* cmd_check_range that takes every tolerance as an absolute one: a faulty
\* variant.
cmd_check_range_abs(r, args) ==
    LET exc == FirstExc(r.variables, args, 1, 3) IN
    IF exc # <<>> THEN error(r, Msg("CHECK_RANGE exception", exc, <<>>))
    ELSE
        LET real_val == parse_value(r.variables, args[1]).val
            expect_val == parse_value(r.variables, args[2]).val
            tol_abs == parse_value(r.variables, args[3]).val
            lower_b == expect_val - tol_abs
            upper_b == expect_val + tol_abs
            rr == AddRow(r, <<"range", lower_b, upper_b>>, real_val)
        IN IF lower_b <= real_val /\ real_val <= upper_b
           THEN rr
           ELSE error(rr, Msg("FAIL out of range", <<args[1], args[2], args[3]>>,
                              <<real_val, lower_b, upper_b>>))

cmd_check_range(r, args) ==
    LET exc == FirstExc(r.variables, args, 1, 3) IN
    IF exc # <<>> THEN error(r, Msg("CHECK_RANGE exception", exc, <<>>))
    ELSE
        LET real_val == parse_value(r.variables, args[1]).val
            expect_val == parse_value(r.variables, args[2]).val
            tol == parse_value(r.variables, args[3]).val
            tol_abs == IF endswith(args[3], "%") THEN (expect_val * tol) \div Scale ELSE tol
            lower_b == expect_val - tol_abs
            upper_b == expect_val + tol_abs
            rr == AddRow(r, <<"range", lower_b, upper_b>>, real_val)
        IN IF lower_b <= real_val /\ real_val <= upper_b
           THEN rr
           ELSE error(rr, Msg("FAIL out of range", <<args[1], args[2], args[3]>>,
                              <<real_val, lower_b, upper_b>>))

\* abs that returns its argument: a faulty variant.
abs_signed(x) == x

abs(x) == IF x < 0 THEN 0 - x ELSE x

cmd_check_diff(r, args) ==
    LET exc == FirstExc(r.variables, args, 1, 3) IN
    IF exc # <<>> THEN error(r, Msg("CHECK_DIFF exception", exc, <<>>))
    ELSE
        LET val_a == parse_value(r.variables, args[1]).val
            val_b == parse_value(r.variables, args[2]).val
            max_diff == parse_value(r.variables, args[3]).val
            diff == abs(val_a - val_b)
            rr == AddRow(r, <<"diff", max_diff>>, diff)
        IN IF diff <= max_diff
           THEN rr
           ELSE error(rr, Msg("FAIL diff too large", <<>>, <<diff, max_diff>>))

\* generate_report that never appends the open case: a faulty variant.
report_append_skips(r) == r

\* generate_report, first part: the open case is appended unless it is in
\* the list already: `not in` finds the dict itself, and also any other entry
\* equal to it (dicts compare by value).
report_append(r) ==
    IF /\ Truthy(r.current_test_data)
       /\ ~r.shared
       /\ r.current_test_data[1] \notin Range(r.test_results)
    THEN [r EXCEPT !.test_results = Append(r.test_results, r.current_test_data[1]),
                   !.shared = TRUE]
    ELSE r

\* generate_report, second part: the report written; <<>> when suppressed.
render(results) ==
    IF results = <<>> THEN <<>>
    ELSE LET total == Len(results)
             passed == Cardinality({i \in DOMAIN results : results[i].result = "PASS"})
             failed == total - passed
         IN <<[total |-> total, passed |-> passed, failed |-> failed,
               overall |-> IF failed = 0 THEN "PASS" ELSE "FAIL",
               rows |-> results]>>

\* ------------------------------------------------------------ script lines
TEST == W("TEST")
T1 == W("T1")
T2 == W("T2")
TitleT == <<Q, "t", Q>>
VarA == <<"$", "a">>
VarB == <<"$", "b">>
NoDollar == <<"v">>
One == <<"1">>
Two == <<"2">>
Junk == <<"x">>
Pct50 == <<"5", "0", "%">>
CH4 == W("CH4")
TO == W("TO")

TestLines ==
    {<<TEST>>, <<TEST, T1>>, <<TEST, T1, TitleT>>, <<W("test"), T2, TitleT>>}

DefVarLines ==
    {<<W("DEF_VAR")>>, <<W("DEF_VAR"), NoDollar>>, <<W("DEF_VAR"), VarA>>,
     <<W("DEF_VAR"), VarA, One>>, <<W("DEF_VAR"), VarA, Two>>,
     <<W("DEF_VAR"), VarA, VarB>>}

SetVarLines ==
    {<<W("SET_VAR"), VarA>>, <<W("SET_VAR"), NoDollar, One>>,
     <<W("SET_VAR"), VarA, One>>, <<W("SET_VAR"), VarA, Junk>>,
     <<W("SET_VAR"), VarB, One>>}

ConfigLines ==
    {<<W("CONFIG"), W("POWER_ADDR")>>, <<W("CONFIG"), W("power_addr"), W("A1")>>}

PowerLines ==
    {<<W("POWER_ON")>>, <<W("POWER_ON"), VarA>>, <<W("POWER_OFF")>>,
     <<W("POWER_CYCLE")>>}

ResLines ==
    {<<W("RES_SET")>>, <<W("RES_SET"), W("100")>>, <<W("RES_SET"), VarA>>,
     <<W("RES_OPEN")>>, <<W("RES_CLOSE")>>}

ScreenshotLines == {<<W("SCREENSHOT")>>}

WaitLines ==
    {<<W("WAIT")>>, <<W("WAIT"), Junk>>, <<W("WAIT"), One>>, <<W("WAIT"), VarA>>}

ReadLines ==
    {<<W("READ"), CH4, TO, VarA>>, <<W("READ"), CH4, W("INTO"), VarA>>,
     <<W("READ"), CH4, TO, NoDollar>>, <<W("READ"), CH4, TO, VarB>>}

CheckLines ==
    {<<W("CHECK_RANGE"), VarA, One, Pct50>>, <<W("CHECK_RANGE"), One, One, Pct50>>,
     <<W("CHECK_RANGE"), Two, One, Pct50>>, <<W("CHECK_RANGE"), Two, One, One>>,
     <<W("CHECK_RANGE"), One, Two, Pct50>>,
     <<W("CHECK_RANGE"), VarA>>,
     <<W("CHECK_DIFF"), VarA, One, <<"0">>>>, <<W("CHECK_DIFF"), Two, One, <<"0">>>>}

UnknownLines == {<<W("FOO")>>}

ScriptLines ==
    UNION {TestLines, DefVarLines, SetVarLines, ConfigLines, PowerLines, ResLines,
           ScreenshotLines, WaitLines, ReadLines, CheckLines, UnknownLines}

\* What the scope tool prints for a read: a number, text, or nothing.
ReadOutputs == {One, Two, Junk, <<>>}

\* ------------------------------------------------------------------ state
VARIABLES
    \* TestRunner fields
    variables, config, failed_tests, test_results, current_test_data,
    current_test_id, current_test_title,
    \* the heap: current_test_data and the last entry of test_results are one
    \* dict object
    shared,
    \* control: where run() is, the handler blocked on a tool or a sleep, the
    \* child process, the exception run() is handling, the exit status
    pc, frame, child, exc, exit_status,
    \* what the run wrote and did: the report, run()'s top-level steps in
    \* order, the tool invocations of the line being executed
    report, events, calls,
    \* history: lines dispatched, the line being executed, the variables as
    \* they were when it was dispatched, the cases opened
    \* (in order), for each entry of test_results the number of the opened
    \* case it is, the line count and the finalized list when an
    \* interrupt arrived or an exception was raised (<<>>: none), the fatal
    \* condition met
    nlines, line, vars_before, opened, fin_serials, at_exc, cause,
    \* the lines of the script file, <<lines>>, when the run is of a given
    \* script; None when the lines are whatever lines the file holds
    script,
    \* test_current_verification.py, main(): where it is (idle: not run), its
    \* arguments and the configurations read_config returned, the
    \* configuration and the point the loops are at, the rows of results
    sw_pc, sw_args, sw_configs, sw_cfg, sw_point, sw_results,
    \* the exception that is propagating out of the try block, if any
    sw_exc,
    \* history: for each row whether measure_scope_current returned a value,
    \* the invocations of the finally block, how the loop was left
    sw_measured, sw_cleanup, sw_left

sweep_vars ==
    <<sw_pc, sw_args, sw_configs, sw_cfg, sw_point, sw_results, sw_exc,
      sw_measured, sw_cleanup, sw_left>>

runner_vars ==
    <<variables, config, failed_tests, test_results, current_test_data,
      current_test_id, current_test_title, shared>>

main_vars ==
    <<variables, config, failed_tests, test_results, current_test_data,
      current_test_id, current_test_title, shared, pc, frame, child, exc, exit_status,
      report, events, calls, nlines, line, vars_before, opened, fin_serials, at_exc, cause,
      script>>

vars == <<main_vars, sweep_vars>>

R == [variables |-> variables, config |-> config, failed_tests |-> failed_tests,
      test_results |-> test_results, current_test_data |-> current_test_data,
      current_test_id |-> current_test_id,
      current_test_title |-> current_test_title, shared |-> shared]

NoFrame == [h |-> "", arg |-> <<>>, desc |-> <<>>]

\* TestRunner.__init__
Constructed ==
    /\ variables = <<>>
    /\ config = [k \in {W("RES_PORT"), W("POWER_ADDR"), W("SCOPE_IP")} |-> None]
    /\ failed_tests = <<>>
    /\ test_results = <<>>
    /\ current_test_data = None
    /\ current_test_id = W("N/A")
    /\ current_test_title = <<>>
    /\ shared = FALSE
    /\ pc = "start"
    /\ frame = NoFrame
    /\ child = "none"
    /\ exc = "none"
    /\ exit_status = -1
    /\ report = <<>>
    /\ events = <<>>
    /\ calls = <<>>
    /\ nlines = 0
    /\ line = <<>>
    /\ vars_before = <<>>
    /\ opened = <<>>
    /\ fin_serials = <<>>
    /\ at_exc = <<>>
    /\ cause = "none"

\* test_current_verification.py is not run.
SweepIdle ==
    /\ sw_pc = "idle"
    /\ sw_args = <<>>
    /\ sw_configs = <<>>
    /\ sw_cfg = 0
    /\ sw_point = 0
    /\ sw_results = <<>>
    /\ sw_exc = "none"
    /\ sw_measured = <<>>
    /\ sw_cleanup = <<>>
    /\ sw_left = "no"

\* A run of whatever script the file holds.
Init == Constructed /\ script = None /\ SweepIdle

\* The runner becomes r.  test_results grows only by the open case, which is
\* the case opened last.
SetR(r) ==
    /\ variables' = r.variables
    /\ config' = r.config
    /\ failed_tests' = r.failed_tests
    /\ test_results' = r.test_results
    /\ current_test_data' = r.current_test_data
    /\ current_test_id' = r.current_test_id
    /\ current_test_title' = r.current_test_title
    /\ shared' = r.shared
    /\ fin_serials' = IF Len(r.test_results) > Len(test_results)
                      THEN Append(fin_serials, Len(opened))
                      ELSE fin_serials

\* -------------------------------------------------- tool command lines
\* cmd.extend([flag, self.config[key]]) when the key is configured.
Inject(r, argv, key, flag) ==
    IF Truthy(r.config[W(key)]) THEN argv \o <<W(flag), r.config[W(key)]>> ELSE argv

\* An invocation record: the tool, its arguments, how the call ended
\* (pending, ok, failed: non-zero return code, spawn_failed, killed) and the
\* stripped standard output of a call that ended ok.
Invocation(tool, argv) ==
    [tool |-> tool, argv |-> argv, status |-> "pending", out |-> <<>>]

\* The last invocation of cs ends with status st.
Mark(cs, st) == [cs EXCEPT ![Len(cs)].status = st]

power_on_cmd(r, args) ==
    LET v == IF Len(args) > 0 THEN args[1] ELSE W("12.0")
        c == IF Len(args) > 1 THEN args[2] ELSE W("2.0")
    IN Invocation("power_ctrl",
                  Inject(r, <<W("-v"), v, W("-c"), c, W("-o"), W("on")>>, "POWER_ADDR", "-a"))

power_off_cmd(r) ==
    Invocation("power_ctrl", Inject(r, <<W("-o"), W("off")>>, "POWER_ADDR", "-a"))

\* POWER_CYCLE's on-state call with cmd_power_on's default setpoints: a
\* faulty variant.
power_cycle_on_cmd_setpoints(r) == power_on_cmd(r, <<>>)

power_cycle_on_cmd(r) ==
    Invocation("power_ctrl", Inject(r, <<W("-o"), W("on")>>, "POWER_ADDR", "-a"))

res_set_cmd(r, args) ==
    Invocation("res_ctrl",
               Inject(r, <<W("-v"), args[1], W("--action"), W("connect")>>, "RES_PORT", "-p"))

res_open_cmd(r) ==
    Invocation("res_ctrl", Inject(r, <<W("--action"), W("disconnect")>>, "RES_PORT", "-p"))

res_close_cmd(r) ==
    Invocation("res_ctrl", Inject(r, <<W("--action"), W("connect")>>, "RES_PORT", "-p"))

\* f"{current_test_id}_{label}_{timestamp}.png"
ShotName(r, args) ==
    LET label == IF Len(args) > 0 THEN args[1] ELSE W("snap")
    IN r.current_test_id \o <<"_">> \o label \o <<"_", "HHMMSS", ".png">>

screenshot_cmd(r, args) ==
    Invocation("yokogawa",
               Inject(r, <<W("shot"), W("-o"), ShotName(r, args)>>, "SCOPE_IP", "--ip"))

\* args[0].replace("CH", "").replace("ch", "")
Channel(tok) == SelectSeq(tok, LAMBDA p : p # "CH" /\ p # "ch")

read_cmd(r, args) ==
    Invocation("yokogawa",
               Inject(r, <<W("mean"), W("-c"), Channel(args[1]), W("--clean")>>,
                      "SCOPE_IP", "--ip"))

\* The description strings handed to run_external_tool.
power_on_desc(args) ==
    <<W("power on"), IF Len(args) > 0 THEN args[1] ELSE W("12.0"),
      IF Len(args) > 1 THEN args[2] ELSE W("2.0")>>

power_off_desc == <<W("power off")>>

power_cycle_on_desc == <<W("power on (restore output)")>>

\* ------------------------------------------------------------ run(): steps
\* A step of a handler that ends inside the run loop, ready for the next line.
ToLoop(r) ==
    /\ SetR(r)
    /\ pc' = "loop"
    /\ frame' = NoFrame
    /\ UNCHANGED <<exc, exit_status, report, events, at_exc, cause>>

\* What is recorded when exception e arises, n lines having been dispatched.
Snapshot(e, n, results) == <<[kind |-> e, nlines |-> n, finalized |-> results]>>

\* A step that ends with exception e propagating to run()'s except clauses.
Raise(r, e, why, n) ==
    /\ SetR(r)
    /\ pc' = "except"
    /\ exc' = e
    /\ cause' = why
    /\ frame' = NoFrame
    /\ events' = Append(events, e)
    /\ at_exc' = Snapshot(e, n, r.test_results)
    /\ UNCHANGED <<exit_status, report>>

\* A step that ends in run_external_tool(inv, desc), about to start the child.
CallTool(r, h, arg, desc) ==
    /\ SetR(r)
    /\ pc' = "popen"
    /\ frame' = [h |-> h, arg |-> arg, desc |-> desc]
    /\ UNCHANGED <<exc, exit_status, report, events, at_exc, cause>>

\* A step that ends in time.sleep.
ToSleep(r, h) ==
    /\ SetR(r)
    /\ pc' = "sleep"
    /\ frame' = [h |-> h, arg |-> <<>>, desc |-> <<>>]
    /\ UNCHANGED <<exc, exit_status, report, events, at_exc, cause>>

\* sys.exit(status) without generate_report: a faulty variant.
Exit_no_report(r, status) ==
    /\ SetR(r)
    /\ events' = Append(events, "exit")
    /\ exit_status' = status
    /\ pc' = "exit"
    /\ frame' = NoFrame
    /\ UNCHANGED <<exc, at_exc, cause, report>>

\* sys.exit(status) after generate_report.
Exit(r, status) ==
    LET r2 == report_append(r) IN
    /\ SetR(r2)
    /\ report' = render(r2.test_results)
    /\ events' = events \o <<"generate_report", "exit">>
    /\ exit_status' = status
    /\ pc' = "exit"
    /\ frame' = NoFrame
    /\ UNCHANGED <<exc, at_exc, cause>>

\* run() up to the for loop: the script file is missing (return), cannot be
\* read (the exception is caught by run), or is read.
RunStart ==
    /\ pc = "start"
    /\ UNCHANGED <<runner_vars, fin_serials, frame, child, report, calls, nlines,
                   line, vars_before, script, sweep_vars, opened>>
    /\ \/ /\ pc' = "exit"
          /\ exit_status' = ExitReturn
          /\ cause' = "missing_file"
          /\ UNCHANGED <<exc, events, at_exc>>
       \/ /\ pc' = "except"
          /\ exc' = "Exception"
          /\ cause' = "unreadable_file"
          /\ events' = Append(events, "Exception")
          /\ at_exc' = Snapshot("Exception", 0, test_results)
          /\ UNCHANGED exit_status
       \/ /\ pc' = "loop"
          /\ UNCHANGED <<exc, exit_status, cause, events, at_exc>>

\* The keywords execute_line dispatches on.
Keywords ==
    {W("TEST"), W("DEF_VAR"), W("CONFIG"), W("POWER_ON"), W("POWER_OFF"),
     W("POWER_CYCLE"), W("RES_SET"), W("RES_OPEN"), W("RES_CLOSE"), W("SCREENSHOT"),
     W("WAIT"), W("READ"), W("SET_VAR"), W("CHECK_RANGE"), W("CHECK_DIFF")}

\* cmd_wait raises: IndexError without argument, ValueError from float() or
\* from time.sleep on a negative length.
cmd_wait_raises(args) ==
    IF Len(args) = 0 THEN TRUE
    ELSE IF ~float(args[1]).ok THEN TRUE
    ELSE float(args[1]).val < 0

cmd_res_set_raises(args) == Len(args) = 0

\* cmd_read up to the tool call: the error it records, or <<>>.
cmd_read_error(r, args) ==
    IF Len(args) # 3 \/ upper(args[2]) # TO
    THEN <<Msg("READ format error", <<>>, <<>>)>>
    ELSE IF ~startswith(args[3], "$")
    THEN <<Msg("variable name must start with $", <<args[3]>>, <<>>)>>
    ELSE IF args[3] \notin DOMAIN r.variables
    THEN <<Msg("variable undefined", <<args[3]>>, <<>>)>>
    ELSE <<>>

\* `for line in lines`: l is the next line of the script; of a script that
\* is not given, at most MaxLines lines are dispatched.
MayDispatch(l) ==
    IF script = None THEN nlines < MaxLines
    ELSE nlines < Len(script[1]) /\ l = script[1][nlines + 1]

\* `for line in lines` is exhausted.
NoMoreLines == IF script = None THEN TRUE ELSE nlines = Len(script[1])

\* execute_line up to the call of the handler: the run loop takes line l,
\* whose keyword, upper-cased, is kw.
Dispatch(l, kw) ==
    /\ pc = "loop"
    /\ MayDispatch(l)
    /\ upper(l[1]) = W(kw)
    /\ nlines' = nlines + 1
    /\ line' = l
    /\ vars_before' = variables
    /\ UNCHANGED <<script, sweep_vars>>
    /\ UNCHANGED child

\* One action per handler: the handler up to its return, its tool call, its
\* sleep, or the exception it raises.
Test(l) ==
    LET args == Tail(l) IN
    /\ Dispatch(l, "TEST")
    /\ calls' = <<>>
    /\ \/ /\ ~cmd_test_raises(args)
          /\ ToLoop(cmd_test(R, args))
          /\ opened' = Append(opened, [id |-> args[1], title |-> strip(join(Tail(args)))])
       \/ /\ cmd_test_raises(args)
          /\ Raise(cmd_test_prefix(R, args, 1), "Exception", "handler_exception", nlines + 1)
          /\ UNCHANGED opened

DefVar(l) ==
    /\ Dispatch(l, "DEF_VAR")
    /\ ToLoop(cmd_def_var(R, Tail(l)))
    /\ calls' = <<>>
    /\ UNCHANGED opened

Config(l) ==
    /\ Dispatch(l, "CONFIG")
    /\ ToLoop(cmd_config(R, Tail(l)))
    /\ calls' = <<>>
    /\ UNCHANGED opened

SetVar(l) ==
    /\ Dispatch(l, "SET_VAR")
    /\ ToLoop(cmd_set_var(R, Tail(l)))
    /\ calls' = <<>>
    /\ UNCHANGED opened

CheckRange(l) ==
    /\ Dispatch(l, "CHECK_RANGE")
    /\ ToLoop(cmd_check_range(R, Tail(l)))
    /\ calls' = <<>>
    /\ UNCHANGED opened

CheckDiff(l) ==
    /\ Dispatch(l, "CHECK_DIFF")
    /\ ToLoop(cmd_check_diff(R, Tail(l)))
    /\ calls' = <<>>
    /\ UNCHANGED opened

PowerOn(l) ==
    /\ Dispatch(l, "POWER_ON")
    /\ CallTool(R, "POWER_ON", <<>>, power_on_desc(Tail(l)))
    /\ calls' = <<power_on_cmd(R, Tail(l))>>
    /\ UNCHANGED opened

PowerOff(l) ==
    /\ Dispatch(l, "POWER_OFF")
    /\ CallTool(R, "POWER_OFF", <<>>, power_off_desc)
    /\ calls' = <<power_off_cmd(R)>>
    /\ UNCHANGED opened

PowerCycle(l) ==
    /\ Dispatch(l, "POWER_CYCLE")
    /\ CallTool(R, "POWER_CYCLE_OFF", <<>>, power_off_desc)
    /\ calls' = <<power_off_cmd(R)>>
    /\ UNCHANGED opened

ResSet(l) ==
    LET args == Tail(l) IN
    /\ Dispatch(l, "RES_SET")
    /\ UNCHANGED opened
    /\ \/ /\ ~cmd_res_set_raises(args)
          /\ CallTool(R, "RES_SET", <<>>, <<W("set resistance"), args[1]>>)
          /\ calls' = <<res_set_cmd(R, args)>>
       \/ /\ cmd_res_set_raises(args)
          /\ Raise(R, "Exception", "handler_exception", nlines + 1)
          /\ calls' = <<>>

ResOpen(l) ==
    /\ Dispatch(l, "RES_OPEN")
    /\ CallTool(R, "RES_OPEN", <<>>, <<W("open resistance")>>)
    /\ calls' = <<res_open_cmd(R)>>
    /\ UNCHANGED opened

ResClose(l) ==
    /\ Dispatch(l, "RES_CLOSE")
    /\ CallTool(R, "RES_CLOSE", <<>>, <<W("close resistance")>>)
    /\ calls' = <<res_close_cmd(R)>>
    /\ UNCHANGED opened

Screenshot(l) ==
    LET args == Tail(l) IN
    /\ Dispatch(l, "SCREENSHOT")
    /\ CallTool(R, "SCREENSHOT", ShotName(R, args), <<W("screenshot"), ShotName(R, args)>>)
    /\ calls' = <<screenshot_cmd(R, args)>>
    /\ UNCHANGED opened

Wait(l) ==
    LET args == Tail(l) IN
    /\ Dispatch(l, "WAIT")
    /\ calls' = <<>>
    /\ UNCHANGED opened
    /\ \/ /\ ~cmd_wait_raises(args)
          /\ ToSleep(R, "WAIT")
       \/ /\ cmd_wait_raises(args)
          /\ Raise(R, "Exception", "handler_exception", nlines + 1)

Read(l) ==
    LET args == Tail(l) IN
    /\ Dispatch(l, "READ")
    /\ UNCHANGED opened
    /\ \/ /\ cmd_read_error(R, args) # <<>>
          /\ ToLoop(error(R, cmd_read_error(R, args)[1]))
          /\ calls' = <<>>
       \/ /\ cmd_read_error(R, args) = <<>>
          /\ CallTool(R, "READ", args[3], <<W("read channel"), Channel(args[1])>>)
          /\ calls' = <<read_cmd(R, args)>>

Unknown(l) ==
    /\ pc = "loop"
    /\ MayDispatch(l)
    /\ upper(l[1]) \notin Keywords
    /\ nlines' = nlines + 1
    /\ line' = l
    /\ vars_before' = variables
    /\ UNCHANGED <<script, sweep_vars>>
    /\ ToLoop(error(R, Msg("unknown command", <<upper(l[1])>>, <<>>)))
    /\ calls' = <<>>
    /\ UNCHANGED <<child, opened>>

\* execute_line(l): one line of the script is dispatched on its keyword.
execute_line(l) ==
    \/ Test(l)
    \/ DefVar(l)
    \/ Config(l)
    \/ PowerOn(l)
    \/ PowerOff(l)
    \/ PowerCycle(l)
    \/ ResSet(l)
    \/ ResOpen(l)
    \/ ResClose(l)
    \/ Screenshot(l)
    \/ Wait(l)
    \/ Read(l)
    \/ SetVar(l)
    \/ CheckRange(l)
    \/ CheckDiff(l)
    \/ Unknown(l)

\* The rest of the handler that called run_external_tool, once the call has
\* returned output (<<>> for None and for empty text), the runner being r.
Continue(r, output) ==
    \/ /\ frame.h \in {"POWER_ON", "POWER_OFF", "RES_SET", "RES_OPEN", "RES_CLOSE",
                       "POWER_CYCLE_ON"}
       /\ ToLoop(r)
    \/ /\ frame.h = "SCREENSHOT"
       /\ ToLoop(IF Truthy(r.current_test_data)
                 THEN LET c == r.current_test_data[1] IN
                      Store(r, [c EXCEPT !.note =
                                    Append(@, Msg("img_link", <<frame.arg>>, <<>>))])
                 ELSE r)
    \/ /\ frame.h = "READ"
       /\ ToLoop(IF ~Truthy(output) THEN r
                 ELSE IF float(output).ok
                 THEN [r EXCEPT !.variables = Put(@, frame.arg, float(output).val)]
                 ELSE error(r, Msg("read value not a number", <<output>>, <<>>)))
    \/ /\ frame.h = "POWER_CYCLE_OFF"
       /\ ToSleep(r, "POWER_CYCLE")
    \/ /\ frame.h = "EMERGENCY"
       /\ Exit(r, IF exc = "KeyboardInterrupt" THEN ExitInterrupt ELSE ExitCrash)

\* run_external_tool: Popen starts the child, or raises (the executable is
\* not found); the handler then goes on with None.
Spawn ==
    /\ pc = "popen"
    /\ UNCHANGED <<nlines, line, vars_before, script, sweep_vars, opened>>
    /\ \/ /\ pc' = "comm"
          /\ child' = "running"
          /\ UNCHANGED <<runner_vars, fin_serials, frame, exc, exit_status, report,
                         events, calls, at_exc, cause>>
       \/ /\ child' = child
          /\ calls' = Mark(calls, "spawn_failed")
          /\ Continue(error(R, Msg("system exception", frame.desc, <<>>)), <<>>)

\* run_external_tool that returns None on a non-zero return code without
\* calling error(): a faulty variant.
ToolExit_unrecorded ==
    /\ pc = "comm"
    /\ child' = "none"
    /\ UNCHANGED <<nlines, line, vars_before, script, sweep_vars, opened>>
    /\ \/ \E out \in (IF frame.h = "READ" THEN ReadOutputs ELSE {<<>>}) :
             /\ calls' = [Mark(calls, "ok") EXCEPT ![Len(calls)].out = out]
             /\ Continue(R, out)
       \/ /\ calls' = Mark(calls, "failed")
          /\ Continue(R, <<>>)

\* run_external_tool: communicate() returns; a non-zero return code is
\* reported with error() and yields None.
ToolExit ==
    /\ pc = "comm"
    /\ child' = "none"
    /\ UNCHANGED <<nlines, line, vars_before, script, sweep_vars, opened>>
    /\ \/ \E out \in (IF frame.h = "READ" THEN ReadOutputs ELSE {<<>>}) :
             /\ calls' = [Mark(calls, "ok") EXCEPT ![Len(calls)].out = out]
             /\ Continue(R, out)
       \/ /\ calls' = Mark(calls, "failed")
          /\ Continue(error(R, Msg("tool failed", frame.desc, <<>>)), <<>>)

\* time.sleep returns: WAIT is done; POWER_CYCLE goes on with the on-state call.
SleepDone ==
    /\ pc = "sleep"
    /\ UNCHANGED <<child, nlines, line, vars_before, script, sweep_vars, opened>>
    /\ \/ /\ frame.h = "WAIT"
          /\ ToLoop(R)
          /\ UNCHANGED calls
       \/ /\ frame.h = "POWER_CYCLE"
          /\ CallTool(R, "POWER_CYCLE_ON", <<>>, power_cycle_on_desc)
          /\ calls' = Append(calls, power_cycle_on_cmd(R))

\* The operator's interrupt: KeyboardInterrupt is raised in the run loop
\* between two lines, or in time.sleep.
Interrupt ==
    /\ pc \in {"loop", "sleep"}
    /\ at_exc = <<>>
    /\ Raise(R, "KeyboardInterrupt", "interrupt", nlines)
    /\ UNCHANGED <<child, calls, nlines, line, vars_before, script, sweep_vars, opened>>

\* The interrupt arrives inside cmd_test, after its first k statements.
TestInterrupted(l, k) ==
    /\ pc = "loop"
    /\ MayDispatch(l)
    /\ at_exc = <<>>
    /\ upper(l[1]) = W("TEST")
    /\ ~cmd_test_raises(Tail(l))
    /\ nlines' = nlines + 1
    /\ line' = l
    /\ vars_before' = variables
    /\ UNCHANGED <<script, sweep_vars>>
    /\ Raise(cmd_test_prefix(R, Tail(l), k), "KeyboardInterrupt", "interrupt", nlines + 1)
    /\ calls' = <<>>
    /\ UNCHANGED <<child, opened>>

\* The interrupt arrives while run_external_tool waits in communicate(): the
\* except KeyboardInterrupt clause of run_external_tool is entered.
ToolInterrupt ==
    /\ pc = "comm"
    /\ frame.h # "EMERGENCY"
    /\ at_exc = <<>>
    /\ at_exc' = Snapshot("KeyboardInterrupt", nlines, test_results)
    /\ pc' = "kill"
    /\ UNCHANGED <<runner_vars, fin_serials, frame, child, exc, exit_status, report,
                   events, calls, nlines, line, vars_before, script, sweep_vars, opened, cause>>

\* raise without process.kill(): a faulty variant.
KillChild_no_kill ==
    /\ pc = "kill"
    /\ child' = child
    /\ SetR(R)
    /\ pc' = "except"
    /\ exc' = "KeyboardInterrupt"
    /\ cause' = "interrupt"
    /\ frame' = NoFrame
    /\ events' = Append(events, "KeyboardInterrupt")
    /\ calls' = Mark(calls, "killed")
    /\ UNCHANGED <<exit_status, report, nlines, line, vars_before, script, sweep_vars, opened, at_exc>>

\* process.kill(), then raise: the interrupt propagates to run().
KillChild ==
    /\ pc = "kill"
    /\ child' = "killed"
    /\ SetR(R)
    /\ pc' = "except"
    /\ exc' = "KeyboardInterrupt"
    /\ cause' = "interrupt"
    /\ frame' = NoFrame
    /\ events' = Append(events, "KeyboardInterrupt")
    /\ calls' = Mark(calls, "killed")
    /\ UNCHANGED <<exit_status, report, nlines, line, vars_before, script, sweep_vars, opened, at_exc>>

\* run()'s except clauses without the emergency power-off: a faulty variant.
Except_no_power_off ==
    /\ pc = "except"
    /\ Exit(R, IF exc = "KeyboardInterrupt" THEN ExitInterrupt ELSE ExitCrash)
    /\ UNCHANGED <<child, calls, nlines, line, vars_before, script, sweep_vars, opened>>

\* run()'s except clauses: the emergency cmd_power_off([]) is called.
Except ==
    /\ pc = "except"
    /\ SetR(R)
    /\ pc' = "popen"
    /\ frame' = [h |-> "EMERGENCY", arg |-> <<>>, desc |-> power_off_desc]
    /\ events' = Append(events, "cmd_power_off")
    /\ calls' = <<power_off_cmd(R)>>
    /\ UNCHANGED <<child, exc, exit_status, report, nlines, line, vars_before, script, sweep_vars, opened, at_exc, cause>>

\* The for loop is exhausted: generate_report, then sys.exit(1) if
\* failed_tests is not empty, else sys.exit(0).
EndOfScript ==
    /\ pc = "loop"
    /\ NoMoreLines
    /\ Exit(R, IF failed_tests # <<>> THEN ExitFailed ELSE ExitPass)
    /\ UNCHANGED <<child, calls, nlines, line, vars_before, script, sweep_vars, opened>>

\* --------------------------------------------- value tokens of DEF_VAR lines
\* The characters value tokens are made of, and the longest token made of
\* every combination of them.
ValueChars == {"$", "a", "1", ".", "%", "m", "A"}
MaxTokenLen == 3

\* Every text of up to MaxTokenLen characters, and the tokens
\* 2560mA, 5%, -1mA, 1mA%, 0.5A.
ValueTokens ==
    UNION {[1..n -> ValueChars] : n \in 1..MaxTokenLen}
    \cup {<<"2", "5", "6", "0", "m", "A">>, <<"5", "%">>, <<"-", "1", "m", "A">>,
          <<"1", "m", "A", "%">>, <<"0", ".", "5", "A">>}

\* DEF_VAR $b <token> for every value token, and the lines that define $a.
ParseLines ==
    {<<W("DEF_VAR"), VarB, tok>> : tok \in ValueTokens}
    \cup {<<W("DEF_VAR"), VarA, One>>, <<W("DEF_VAR"), VarA, Two>>}

\* The longest script of DEF_VAR lines.
MaxParseLines == 2

\* run() on a script of at most MaxParseLines DEF_VAR lines.
ParseNext ==
    \/ RunStart
    \/ /\ nlines < MaxParseLines
       /\ \E l \in ParseLines : DefVar(l)

ParseSpec == Init /\ [][ParseNext]_vars

\* ------------------------------------------------- the end-to-end scenario
VarV == <<"$", "v">>
Ten == <<"1", "0">>
Pct1 == <<"1", "%">>

\* DEF_VAR $v / TEST T1 "t" / SET_VAR $v 10 / CHECK_RANGE $v 10 1%
ScenarioScript ==
    << <<W("DEF_VAR"), VarV>>,
       <<TEST, T1, TitleT>>,
       <<W("SET_VAR"), VarV, Ten>>,
       <<W("CHECK_RANGE"), VarV, Ten, Pct1>> >>

\* The lines of the scenario, and a TEST without its id.
ScenarioLines == Range(ScenarioScript) \cup {<<TEST>>}

\* The lines of a given script.
ScenarioLen == 4

\* The scripts of ScenarioLen lines made of the scenario's lines.
ScenarioScripts == [1..ScenarioLen -> ScenarioLines]

\* A run of one of the given scripts.
ScenarioInit ==
    Constructed /\ script \in {<<sc>> : sc \in ScenarioScripts} /\ SweepIdle

\* run() on a given script of these lines, the operator not interrupting.
ScenarioNext ==
    \/ RunStart
    \/ \E l \in ScenarioLines : Test(l) \/ DefVar(l) \/ SetVar(l) \/ CheckRange(l)
    \/ EndOfScript

ScenarioSpec == ScenarioInit /\ [][ScenarioNext]_vars

\* ------------------------------------------------ scripts that configure
\* CONFIG lines for each instrument, for a key written twice and for a key
\* the runner does not know.
EndpointLines ==
    {<<W("CONFIG"), W("POWER_ADDR"), W("A2")>>,
     <<W("CONFIG"), W("res_port"), W("P1")>>,
     <<W("CONFIG"), W("SCOPE_IP"), W("IP1")>>,
     <<W("CONFIG"), W("FOO"), W("A1")>>}

\* The CONFIG lines and lines for every command.
ConfigScriptLines ==
    UNION {ConfigLines, EndpointLines,
           {<<TEST>>, <<TEST, T1>>},
           {<<W("DEF_VAR"), VarA>>, <<W("SET_VAR"), VarA, One>>},
           {<<W("POWER_ON")>>, <<W("POWER_OFF")>>, <<W("POWER_CYCLE")>>},
           {<<W("RES_SET")>>, <<W("RES_SET"), W("100")>>, <<W("RES_OPEN")>>,
            <<W("RES_CLOSE")>>},
           ScreenshotLines,
           {<<W("WAIT")>>, <<W("WAIT"), One>>},
           {<<W("READ"), CH4, TO, VarA>>, <<W("READ"), CH4, W("INTO"), VarA>>},
           {<<W("CHECK_RANGE"), One, One, Pct50>>, <<W("CHECK_DIFF"), Two, One, <<"0">>>>},
           UnknownLines}

\* run() on scripts of these lines.
ConfigNext ==
    \/ RunStart
    \/ \E l \in ConfigScriptLines : execute_line(l)
    \/ Spawn
    \/ ToolExit
    \/ SleepDone
    \/ Interrupt
    \/ \E l \in {<<TEST, T1>>}, k \in 1..3 : TestInterrupted(l, k)
    \/ ToolInterrupt
    \/ KillChild
    \/ Except
    \/ EndOfScript

ConfigSpec == Init /\ [][ConfigNext]_vars

\* ----------------------------------------- scripts that check a value itself
\* Expected values: negative, zero and positive; tolerances: absolute and
\* percent, zero and positive.
ExpectedTokens ==
    {<<"-", "2">>, <<"-", "1">>, <<"-", "0", ".", "5">>, <<"0">>, <<"0", ".", "5">>,
     One, Two}

ToleranceTokens == {<<"0">>, <<"0", ".", "5">>, One, <<"0", "%">>, <<"1", "%">>, Pct50}

\* TEST lines, and CHECK_RANGE e e t for each expected value e and tolerance t.
SelfCheckLines ==
    {<<TEST>>, <<TEST, T1>>}
    \cup {<<W("CHECK_RANGE"), e, e, t>> : e \in ExpectedTokens, t \in ToleranceTokens}

\* The longest script of these lines.
MaxSelfCheckLines == 2

\* run() on a script of at most MaxSelfCheckLines of these lines.
SelfCheckNext ==
    \/ RunStart
    \/ /\ nlines < MaxSelfCheckLines
       /\ \E l \in SelfCheckLines : Test(l) \/ CheckRange(l)

SelfCheckSpec == Init /\ [][SelfCheckNext]_vars

\* ===================================== test_current_verification.py: main()
\* The configurations read_config returns are numbered 1..n (their id) and
\* reduced to their 'current'; currents, readings and the tolerance are
\* integers, and error_pct <= tolerance is decided exactly.
MaxConfigs == 2

\* cfg['current'], args.tolerance, and the numbers the scope tool prints.
Currents == {-30, 0, 30}
Tolerances == {5, 100}
Readings == {30}

\* args: --level (0 stands for --all), --full-range, --tolerance.
SweepArgs == [level : 0..MaxConfigs, full_range : BOOLEAN, tolerance : Tolerances]

SweepConfigs == UNION {[1..n -> Currents] : n \in 1..MaxConfigs}

\* points_to_test
points_to_test(a) == IF a.full_range THEN <<"min", "typ", "max">> ELSE <<"typ">>

\* How a call of run_cli_command ends: it returns True (or the output),
\* returns False (None) on CalledProcessError, or an exception it does not
\* catch leaves it: OSError (the executable cannot be started) or the
\* operator's KeyboardInterrupt.
Outcomes == {"ok", "failed", "oserror", "interrupt"}

\* What float(last_line) makes of the output of the scope tool.
ScopeOutputs == {[ok |-> TRUE, val |-> v] : v \in Readings} \cup {[ok |-> FALSE, val |-> 0]}

\* measure_scope_current: None when run_cli_command returned None or the
\* last line is not a number, else <<value>>.
measure_scope_current(o, out) ==
    IF o = "failed" THEN None
    ELSE IF out.ok THEN <<out.val>>
    ELSE None

\* error_pct <= tolerance, error_pct being 0.0 when expected_current is 0
\* and abs(measured_val - expected_current) / expected_current * 100
\* otherwise (the division by a negative current yields a negative error).
error_within(measured_val, expected_current, tolerance) ==
    IF expected_current = 0 THEN 0 <= tolerance
    ELSE IF expected_current > 0
    THEN abs(measured_val - expected_current) * 100 <= tolerance * expected_current
    ELSE abs(measured_val - expected_current) * 100 >= tolerance * expected_current

\* The row of a point: a failed measurement is recorded as 0.0.
row_of(m) ==
    LET expected_current == sw_configs[sw_cfg]
        measured_val == IF m = None THEN 0 ELSE m[1]
    IN [Level_ID |-> sw_cfg,
        Test_Point |-> points_to_test(sw_args)[sw_point],
        Expected_Current |-> expected_current,
        Measured_Current |-> measured_val,
        Result |-> IF error_within(measured_val, expected_current, sw_args.tolerance)
                   THEN "PASS" ELSE "FAIL"]

\* main() up to the try block: the arguments are parsed, the configurations
\* read, the result file opened.
SweepInit ==
    /\ Constructed
    /\ script = None
    /\ sw_pc = "start"
    /\ sw_args \in SweepArgs
    /\ sw_configs \in SweepConfigs
    /\ sw_cfg = 0
    /\ sw_point = 0
    /\ sw_results = <<>>
    /\ sw_exc = "none"
    /\ sw_measured = <<>>
    /\ sw_cleanup = <<>>
    /\ sw_left = "no"

\* The try block is left: by the end of the loop, by KeyboardInterrupt
\* (caught, e = "none") or by another exception (e propagates); the finally
\* block is next.
Leave(how, e) ==
    /\ sw_pc' = "cleanup_power"
    /\ sw_left' = how
    /\ sw_exc' = e
    /\ UNCHANGED <<sw_args, sw_configs, sw_cfg, sw_point, sw_results, sw_measured,
                   sw_cleanup>>

\* An exception leaves a call in the loop.
Thrown(o) ==
    IF o = "interrupt" THEN Leave("interrupt", "none") ELSE Leave("exception", "OSError")

\* break: the loop over the points of this configuration is left, the loop
\* over the configurations goes on.
Break ==
    /\ sw_pc' = "for_cfg"
    /\ sw_cfg' = sw_cfg + 1
    /\ sw_left' = "break"
    /\ UNCHANGED <<sw_args, sw_configs, sw_point, sw_results, sw_exc, sw_measured,
                   sw_cleanup>>

\* The next statement of the loop body, at pc p.
Goto(p) ==
    /\ sw_pc' = p
    /\ UNCHANGED <<sw_args, sw_configs, sw_cfg, sw_point, sw_results, sw_exc,
                   sw_measured, sw_cleanup, sw_left>>

SweepEnter ==
    /\ sw_pc = "start"
    /\ sw_pc' = "for_cfg"
    /\ sw_cfg' = 1
    /\ UNCHANGED <<main_vars, sw_args, sw_configs, sw_point, sw_results, sw_exc,
                   sw_measured, sw_cleanup, sw_left>>

\* for cfg in configs: the loop ends, or cfg is skipped (--level), or its
\* points are started.
ForCfg ==
    /\ sw_pc = "for_cfg"
    /\ UNCHANGED main_vars
    /\ IF sw_cfg > Len(sw_configs)
       THEN Leave(IF sw_left = "break" THEN "break" ELSE "done", "none")
       ELSE IF sw_args.level # 0 /\ sw_cfg # sw_args.level
       THEN /\ sw_cfg' = sw_cfg + 1
            /\ UNCHANGED <<sw_pc, sw_args, sw_configs, sw_point, sw_results, sw_exc,
                           sw_measured, sw_cleanup, sw_left>>
       ELSE /\ sw_pc' = "for_point"
            /\ sw_point' = 1
            /\ UNCHANGED <<sw_args, sw_configs, sw_cfg, sw_results, sw_exc,
                           sw_measured, sw_cleanup, sw_left>>

\* for point in points_to_test
ForPoint ==
    /\ sw_pc = "for_point"
    /\ UNCHANGED main_vars
    /\ IF sw_point > Len(points_to_test(sw_args))
       THEN /\ sw_pc' = "for_cfg"
            /\ sw_cfg' = sw_cfg + 1
            /\ UNCHANGED <<sw_args, sw_configs, sw_point, sw_results, sw_exc,
                           sw_measured, sw_cleanup, sw_left>>
       ELSE Goto("res_set")

\* a. run_cli_command(res_cmd): break when it fails.
SetResistance ==
    /\ sw_pc = "res_set"
    /\ UNCHANGED main_vars
    /\ \E o \in Outcomes :
          IF o = "ok" THEN Goto("power_off")
          ELSE IF o = "failed" THEN Break
          ELSE Thrown(o)

\* b. run_cli_command(off_cmd): its result is not looked at.
SweepPowerOff ==
    /\ sw_pc = "power_off"
    /\ UNCHANGED main_vars
    /\ \E o \in Outcomes :
          IF o \in {"ok", "failed"} THEN Goto("sleep_off") ELSE Thrown(o)

\* time.sleep(1)
SleepAfterOff ==
    /\ sw_pc = "sleep_off"
    /\ UNCHANGED main_vars
    /\ \E o \in {"ok", "interrupt"} :
          IF o = "ok" THEN Goto("power_on") ELSE Thrown(o)

\* run_cli_command(on_cmd): break when it fails.
SweepPowerOn ==
    /\ sw_pc = "power_on"
    /\ UNCHANGED main_vars
    /\ \E o \in Outcomes :
          IF o = "ok" THEN Goto("sleep_on")
          ELSE IF o = "failed" THEN Break
          ELSE Thrown(o)

\* time.sleep(3)
SleepAfterOn ==
    /\ sw_pc = "sleep_on"
    /\ UNCHANGED main_vars
    /\ \E o \in {"ok", "interrupt"} :
          IF o = "ok" THEN Goto("measure") ELSE Thrown(o)

\* c. measure_scope_current, d. the validation and the row.
Measure ==
    /\ sw_pc = "measure"
    /\ UNCHANGED main_vars
    /\ \E o \in Outcomes, out \in ScopeOutputs :
          IF o \in {"ok", "failed"}
          THEN LET m == measure_scope_current(o, out) IN
               /\ sw_results' = Append(sw_results, row_of(m))
               /\ sw_measured' = Append(sw_measured, m # None)
               /\ sw_point' = sw_point + 1
               /\ sw_pc' = "for_point"
               /\ UNCHANGED <<sw_args, sw_configs, sw_cfg, sw_exc, sw_cleanup, sw_left>>
          ELSE Thrown(o)

\* run_cli_command(cleanup_cmd) that lets an exception of the call leave
\* the finally block: a faulty variant.
CleanupPower_unguarded ==
    /\ sw_pc = "cleanup_power"
    /\ UNCHANGED main_vars
    /\ \E o \in Outcomes :
          /\ sw_cleanup' = Append(sw_cleanup, <<"power", "off", o>>)
          /\ sw_pc' = IF o \in {"ok", "failed"} THEN "cleanup_res" ELSE "raised"
          /\ UNCHANGED <<sw_args, sw_configs, sw_cfg, sw_point, sw_results, sw_exc,
                         sw_measured, sw_left>>

\* finally: run_cli_command(cleanup_cmd) inside try/except: pass; whatever
\* the call does, the next statement is reached.
CleanupPower ==
    /\ sw_pc = "cleanup_power"
    /\ UNCHANGED main_vars
    /\ \E o \in Outcomes :
          /\ sw_cleanup' = Append(sw_cleanup, <<"power", "off", o>>)
          /\ sw_pc' = "cleanup_res"
          /\ UNCHANGED <<sw_args, sw_configs, sw_cfg, sw_point, sw_results, sw_exc,
                         sw_measured, sw_left>>

\* finally: run_cli_command(cleanup_res) inside try/except: pass; then the
\* exception that left the try block, if any, propagates out of main().
CleanupResistance ==
    /\ sw_pc = "cleanup_res"
    /\ UNCHANGED main_vars
    /\ \E o \in Outcomes :
          /\ sw_cleanup' = Append(sw_cleanup, <<"res", "OPEN", o>>)
          /\ sw_pc' = IF sw_exc = "none" THEN "end" ELSE "raised"
          /\ UNCHANGED <<sw_args, sw_configs, sw_cfg, sw_point, sw_results, sw_exc,
                         sw_measured, sw_left>>

SweepNext ==
    \/ SweepEnter
    \/ ForCfg
    \/ ForPoint
    \/ SetResistance
    \/ SweepPowerOff
    \/ SleepAfterOff
    \/ SweepPowerOn
    \/ SleepAfterOn
    \/ Measure
    \/ CleanupPower
    \/ CleanupResistance

\* Every call and every sleep of main() ends: it returns or an exception
\* leaves it.
SweepSpec == SweepInit /\ [][SweepNext]_vars /\ WF_vars(SweepNext)

Next ==
    \/ RunStart
    \/ \E l \in ScriptLines : execute_line(l)
    \/ Spawn
    \/ ToolExit
    \/ SleepDone
    \/ Interrupt
    \/ \E l \in TestLines, k \in 1..3 : TestInterrupted(l, k)
    \/ ToolInterrupt
    \/ KillChild
    \/ Except
    \/ EndOfScript

Spec == Init /\ [][Next]_vars

\* ============================================================== properties
\* The run has ended (sys.exit, or the return of run()).
Finished == pc = "exit"

\* The run ended at the end of the script: no interrupt, no exception.
NormalEnd == pc = "exit" /\ cause = "none"

\* The operator's interrupt has arrived.
InterruptedRun == at_exc # <<>> /\ at_exc[1].kind = "KeyboardInterrupt"

\* Event a was logged before event b.
Before(a, b) == \E i, j \in DOMAIN events : i < j /\ events[i] = a /\ events[j] = b

\* The report has a row for each case of list before, in the same order: the
\* same case with the same recorded values; only the last of them, when an
\* error was recorded against it since, may have become FAIL with a longer
\* note.
ReportContains(before) ==
    LET rows == report[1].rows IN
    /\ Len(before) <= Len(rows)
    /\ \A i \in DOMAIN before :
          /\ rows[i].id = before[i].id
          /\ rows[i].title = before[i].title
          /\ rows[i].expected = before[i].expected
          /\ rows[i].actual = before[i].actual
          /\ \/ rows[i] = before[i]
             \/ i = Len(before) /\ rows[i].result = "FAIL"

\* The opened cases no entry of the finalized list stands for.
OpenSerials == {n \in DOMAIN opened : n \notin Range(fin_serials)}

\* How many entries of the finalized list stand for the n-th opened case.
TimesFinalized(n) == Cardinality({i \in DOMAIN fin_serials : fin_serials[i] = n})

\* ---------------------------------------------------------------------- C1
\* C1: when a script whose N TEST commands each give an id and a title runs
\* to the end of the script, the finalized list has exactly N entries, one
\* per TEST command and in script order, each with a non-empty id and a
\* non-empty title.
C1_OneEntryPerTest ==
    (NormalEnd /\ \A n \in DOMAIN opened : opened[n].title # <<>>) =>
        /\ Len(test_results) = Len(opened)
        /\ \A i \in DOMAIN test_results :
              /\ i \in DOMAIN opened =>
                    /\ test_results[i].id = opened[i].id
                    /\ test_results[i].title = opened[i].title
              /\ test_results[i].id # <<>>
              /\ test_results[i].title # <<>>

\* ---------------------------------------------------------------------- C2
\* C2: whichever way the run ends (end of script, interrupt at any point,
\* cmd_test included, or crash), each opened case is in the finalized list
\* exactly once; while the run goes on no case is in it twice, and only the
\* last opened case may be missing from it.
C2_EachCaseFinalizedOnce ==
    /\ \A n \in DOMAIN opened : TimesFinalized(n) <= 1
    /\ OpenSerials \subseteq {Len(opened)}
    /\ Finished => \A n \in DOMAIN opened : TimesFinalized(n) = 1

\* ---------------------------------------------------------------------- C3
\* C3 as stated: after an operator interrupt no further script line is
\* executed, and the run ends with the power-off handler invoked after the
\* interrupt, a report that contains every case finalized before the
\* interrupt, and exit status 130, which is neither the all-pass nor the
\* has-failures status.
C3_InterruptShutdown ==
    InterruptedRun =>
        /\ nlines = at_exc[1].nlines
        /\ Finished =>
              /\ Before("KeyboardInterrupt", "cmd_power_off")
              /\ report # <<>>
              /\ ReportContains(at_exc[1].finalized)
              /\ exit_status = 130
              /\ exit_status \notin {ExitPass, ExitFailed}

\* C3, amended: as above, but the report is produced if and only if a TEST
\* command had opened a case before the interrupt; with no case at all the
\* report is suppressed.
C3_InterruptShutdownAmended ==
    InterruptedRun =>
        /\ nlines = at_exc[1].nlines
        /\ pc \in {"kill", "except", "popen", "comm", "exit"}
        /\ pc \in {"popen", "comm"} => frame.h = "EMERGENCY"
        /\ Finished =>
              /\ Before("KeyboardInterrupt", "cmd_power_off")
              /\ report # <<>> <=> opened # <<>>
              /\ report # <<>> => ReportContains(at_exc[1].finalized)
              /\ exit_status = 130
              /\ exit_status \notin {ExitPass, ExitFailed}

\* An interrupt that arrived during a blocking tool call, a case having been
\* finalized before: the child was killed and the run has ended.
C3_Witness ==
    /\ Finished
    /\ InterruptedRun
    /\ child = "killed"
    /\ at_exc[1].finalized # <<>>
    /\ report # <<>>

\* ---------------------------------------------------------------------- C4
\* How the run ended, as run() tells the four outcomes apart.
Outcome ==
    IF cause = "interrupt" THEN "interrupted"
    ELSE IF cause \in {"handler_exception", "unreadable_file"} THEN "fatal"
    ELSE IF failed_tests # <<>> THEN "failing"
    ELSE "passed"

\* The status run() exits with for each outcome.
StatusOf(o) ==
    CASE o = "passed" -> ExitPass
      [] o = "failing" -> ExitFailed
      [] o = "interrupted" -> ExitInterrupt
      [] o = "fatal" -> ExitCrash

\* C4: the exit status tells the four outcomes apart: a run that ended in
\* one of all-passed, had-failing-cases, operator-interrupted and
\* fatal-uncaught-error has a status that is the status of no other outcome.
C4_ExitStatusDistinguishes ==
    (Finished /\ cause # "missing_file") =>
        \A o \in {"passed", "failing", "interrupted", "fatal"} \ {Outcome} :
            exit_status # StatusOf(o)

\* ---------------------------------------------------------------------- C5
\* Some finalized case has result FAIL.
SomeCaseFailed == \E i \in DOMAIN test_results : test_results[i].result = "FAIL"

\* C5: at the end of the script the run exits with status 0 if and only if
\* no finalized case is FAIL, and with the failure status if and only if
\* some finalized case is FAIL, so that the status agrees with the report's
\* overall verdict; errors recorded before the first TEST are included.
C5_ExitAgreesWithReport ==
    NormalEnd =>
        /\ exit_status = 0 <=> ~SomeCaseFailed
        /\ exit_status = ExitFailed <=> SomeCaseFailed
        /\ report # <<>> => (report[1].overall = "PASS" <=> exit_status = 0)

\* ---------------------------------------------------------------------- C6
\* C6: a run ended by a fatal condition (missing or unreadable script file,
\* uncaught exception, interrupt) has invoked the power-off handler, then
\* generated the report, then exited with a non-zero status.
C6_FatalShutdown ==
    (Finished /\ cause # "none") =>
        /\ Before("cmd_power_off", "generate_report")
        /\ Before("generate_report", "exit")
        /\ exit_status # 0

\* ---------------------------------------------------------------------- C7
\* A command handler raised an exception that reached run().
CrashedRun == cause = "handler_exception"

\* A case is open.
CaseOpen == Truthy(current_test_data)

\* The (id, title) pairs of the report's rows.
ReportedCases ==
    {[id |-> report[1].rows[i].id, title |-> report[1].rows[i].title] :
        i \in DOMAIN report[1].rows}

\* The emergency power-off call failed: non-zero return code, or no child.
PowerOffFailed == calls # <<>> /\ calls[1].status \in {"failed", "spawn_failed"}

PowerOffFailureNoted(c) ==
    \E i \in DOMAIN c.note :
        /\ c.note[i].kind \in {"tool failed", "system exception"}
        /\ c.note[i].toks = power_off_desc

\* C7: after a handler raised an uncaught exception, no further script line
\* is executed and nothing runs but the emergency shutdown; the run ends
\* having done, in this order, the power-off, the report generation (over
\* the cases opened so far; suppressed when there is none) and the exit with
\* a non-zero status; a failed power-off call is recorded against the open
\* case and the report and the exit follow all the same.
C7_CrashShutdown ==
    CrashedRun =>
        /\ nlines = at_exc[1].nlines
        /\ pc \in {"except", "popen", "comm", "exit"}
        /\ pc \in {"popen", "comm"} => frame.h = "EMERGENCY"
        /\ Finished =>
              /\ events = <<"Exception", "cmd_power_off", "generate_report", "exit">>
              /\ exit_status # 0
              /\ report # <<>> <=> opened # <<>>
              /\ report # <<>> => ReportedCases = Range(opened)
              /\ PowerOffFailed =>
                    /\ failed_tests # <<>>
                    /\ CaseOpen =>
                          /\ current_test_data[1].result = "FAIL"
                          /\ PowerOffFailureNoted(current_test_data[1])
                          /\ report[1].overall = "FAIL"

\* WAIT with a non-numeric argument ended the run while a case was open, and
\* the emergency power-off tool failed.
C7_Witness ==
    /\ Finished
    /\ CrashedRun
    /\ line = <<W("WAIT"), Junk>>
    /\ CaseOpen
    /\ PowerOffFailed
    /\ report # <<>>

\* ---------------------------------------------------------------------- C8
\* One step leaves the verdicts monotone: a case that stays open and is FAIL
\* is FAIL afterwards, a finalized FAIL stays FAIL, and a case just opened
\* is PASS.
C8_Step ==
    /\ (Len(opened') = Len(opened) /\ CaseOpen /\ current_test_data[1].result = "FAIL")
          => (Truthy(current_test_data') /\ current_test_data'[1].result = "FAIL")
    /\ \A i \in DOMAIN test_results :
          test_results[i].result = "FAIL" =>
              (i \in DOMAIN test_results' /\ test_results'[i].result = "FAIL")
    /\ Len(opened') > Len(opened) =>
          (Truthy(current_test_data') /\ current_test_data'[1].result = "PASS")

\* C8: within a case the result starts as PASS and, once FAIL, is never PASS
\* again whatever commands follow; and at most one opened case is outside
\* the finalized list at any time.
C8_ResultMonotone ==
    /\ [](Cardinality(OpenSerials) <= 1)
    /\ [][C8_Step]_vars

\* A row of the expected and actual lists whose value is out of its range,
\* or whose difference is over its limit.
RowViolated(exp, act) ==
    IF exp[1] = "range" THEN act < exp[2] \/ act > exp[3] ELSE act > exp[2]

\* The open case is FAIL and a check that passed was recorded in it since.
C8_Witness ==
    /\ pc = "loop"
    /\ CaseOpen
    /\ current_test_data[1].result = "FAIL"
    /\ current_test_data[1].expected # <<>>
    /\ LET c == current_test_data[1] IN
       ~RowViolated(c.expected[Len(c.expected)], c.actual[Len(c.actual)])
    /\ upper(line[1]) = W("CHECK_RANGE")

\* ---------------------------------------------------------------------- C9
\* This step dispatches a CHECK_RANGE or CHECK_DIFF that records, in the
\* open case, a value out of its range or a difference over its limit.
AssertionFailStep ==
    /\ pc = "loop"
    /\ nlines' = nlines + 1
    /\ upper(line'[1]) \in {W("CHECK_RANGE"), W("CHECK_DIFF")}
    /\ CaseOpen
    /\ Truthy(current_test_data')
    /\ LET c == current_test_data'[1] IN
       /\ Len(c.expected) = Len(current_test_data[1].expected) + 1
       /\ RowViolated(c.expected[Len(c.expected)], c.actual[Len(c.actual)])

\* This step ends a tool call of a script command in failure (non-zero
\* return code, or the child could not be started) while a case is open.
ToolFailStep ==
    /\ pc \in {"popen", "comm"}
    /\ frame.h # "EMERGENCY"
    /\ CaseOpen
    /\ calls # <<>>
    /\ Len(calls') = Len(calls)
    /\ calls[Len(calls)].status = "pending"
    /\ calls'[Len(calls)].status \in {"failed", "spawn_failed"}

\* Note c.note holds a message of this step's failure.
FailureNoted(c) ==
    \E i \in DOMAIN c.note :
        \/ /\ AssertionFailStep
           /\ c.note[i].kind \in {"FAIL out of range", "FAIL diff too large"}
        \/ /\ ToolFailStep
           /\ c.note[i].kind \in {"tool failed", "system exception"}
           /\ c.note[i].toks = frame.desc

\* No error message is in a note twice (image links are not error messages).
NoteDeduplicated(c) ==
    \A i, j \in DOMAIN c.note :
        (i < j /\ c.note[i] = c.note[j]) => c.note[i].kind = "img_link"

C9_Step ==
    /\ (AssertionFailStep \/ ToolFailStep) =>
          /\ Len(opened') = Len(opened)
          /\ Truthy(current_test_data')
          /\ current_test_data'[1].result = "FAIL"
          /\ FailureNoted(current_test_data'[1])
          /\ test_results' = test_results
          /\ pc' \in {"loop", "sleep"}
          /\ nlines' <= MaxLines
    /\ Len(opened') > Len(opened) =>
          /\ Truthy(current_test_data')
          /\ current_test_data'[1].result = "PASS"
          /\ current_test_data'[1].note = <<>>

\* C9: a failed assertion or a failed tool call makes the open case FAIL
\* and puts its message in that case's note, where no message is ever
\* twice; the handler returns to the run loop, which goes on with the next
\* line; the finalized cases are untouched and a case opened later starts
\* as PASS with an empty note.
C9_FailureConfined ==
    /\ [](/\ CaseOpen => NoteDeduplicated(current_test_data[1])
          /\ \A i \in DOMAIN test_results : NoteDeduplicated(test_results[i]))
    /\ [][C9_Step]_vars

\* The first case failed an assertion or a tool call, and the TEST command
\* after it was executed: the second case is open and PASS.
C9_Witness ==
    /\ pc = "loop"
    /\ Len(opened) = 2
    /\ Len(test_results) = 1
    /\ test_results[1].result = "FAIL"
    /\ \E i \in DOMAIN test_results[1].note :
          test_results[1].note[i].kind \in {"FAIL out of range", "tool failed"}
    /\ CaseOpen
    /\ current_test_data[1].result = "PASS"
    /\ upper(line[1]) = W("TEST")

\* --------------------------------------------------------------------- C10
\* Line l has a script-syntax error: an argument count the command does not
\* take, a variable name without `$`, a READ without TO, or an unknown
\* keyword.
SyntaxError(l) ==
    LET kw == upper(l[1])
        args == Tail(l)
        n == Len(args)
    IN IF kw \notin Keywords THEN TRUE
       ELSE IF kw \in {W("TEST"), W("RES_SET"), W("WAIT")} THEN n = 0
       ELSE IF kw = W("DEF_VAR") THEN n = 0 \/ ~startswith(args[1], "$")
       ELSE IF kw = W("CONFIG") THEN n < 2
       ELSE IF kw = W("READ")
       THEN n # 3 \/ upper(args[2]) # W("TO") \/ ~startswith(args[3], "$")
       ELSE IF kw = W("SET_VAR") THEN n # 2 \/ ~startswith(args[1], "$")
       ELSE IF kw \in {W("CHECK_RANGE"), W("CHECK_DIFF")} THEN n < 3
       ELSE FALSE

C10_Step ==
    (pc = "loop" /\ nlines' = nlines + 1 /\ SyntaxError(line')) =>
        /\ pc' = "loop"
        /\ failed_tests' # failed_tests
        /\ CaseOpen => (Truthy(current_test_data') /\ current_test_data'[1].result = "FAIL")

\* C10: a line with a script-syntax error or an unknown keyword is recorded
\* as an error (against the open case, when there is one) and the run loop
\* goes on with the next line; no such line ends the run.
C10_SyntaxErrorsContinue == [][C10_Step]_vars

\* --------------------------------------------------------------------- C11
\* The `$`-tokens line l refers to: every argument that starts with `$`,
\* but for the name DEF_VAR defines.
Refs(l) ==
    LET args == Tail(l) IN
    {args[i] : i \in {j \in DOMAIN args :
                         /\ startswith(args[j], "$")
                         /\ ~(upper(l[1]) = W("DEF_VAR") /\ j = 1)}}

\* This step dispatches a line.
DispatchStep == pc = "loop" /\ nlines' = nlines + 1

C11_Step ==
    (DispatchStep /\ \E tok \in Refs(line') : tok \notin DOMAIN variables) =>
        /\ failed_tests' # failed_tests
        /\ pc' = "loop"
        /\ calls' = <<>>
        /\ variables' = variables

\* C11: a command that refers to a `$`-variable no DEF_VAR has defined
\* records an error as a step failure, whichever command it is: the run
\* loop goes on, no tool is called with the unresolved name, and no variable
\* changes.
C11_UndefinedReferenceFails == [][C11_Step]_vars

\* --------------------------------------------------------------------- C12
\* Line l is a SET_VAR or a READ whose target variable is not defined in vs.
SetsUndefined(l, vs) ==
    LET args == Tail(l) IN
    \/ upper(l[1]) = W("SET_VAR") /\ Len(args) >= 1 /\ args[1] \notin DOMAIN vs
    \/ upper(l[1]) = W("READ") /\ Len(args) >= 3 /\ args[3] \notin DOMAIN vs

C12_Step ==
    /\ DOMAIN variables' # DOMAIN variables =>
          /\ DispatchStep
          /\ upper(line'[1]) = W("DEF_VAR")
          /\ Len(line') >= 2
          /\ DOMAIN variables' = DOMAIN variables \cup {line'[2]}
          /\ failed_tests' = failed_tests
    /\ (DispatchStep /\ SetsUndefined(line', variables)) =>
          /\ variables' = variables
          /\ failed_tests' # failed_tests
          /\ calls' = <<>>
          /\ pc' = "loop"

\* C12: the set of defined names changes only by a DEF_VAR that records no
\* error, and only by the name it defines; SET_VAR and READ on an undefined
\* name record an error, call no tool and leave every variable as it was.
C12_NoImplicitCreation == [][C12_Step]_vars

\* SET_VAR $b 1 was executed with $a defined and $b not: $b is still
\* undefined, the variables are as before, and an error is recorded.
C12_Witness ==
    /\ pc = "loop"
    /\ line = <<W("SET_VAR"), VarB, One>>
    /\ VarA \in DOMAIN variables
    /\ VarB \notin DOMAIN variables
    /\ variables = vars_before
    /\ failed_tests # <<>>

\* --------------------------------------------------------------------- C13
\* Line l is a DEF_VAR of a `$`-name, without initial value or with one
\* that has a value in vs.
GoodDefVar(l, vs) ==
    LET args == Tail(l) IN
    /\ upper(l[1]) = W("DEF_VAR")
    /\ Len(args) >= 1
    /\ startswith(args[1], "$")
    /\ Len(args) >= 2 => parse_value(vs, args[2]).ok

C13_Step ==
    (DispatchStep /\ GoodDefVar(line', variables)) =>
        LET name == line'[2]
            v == IF Len(line') >= 3 THEN parse_value(variables, line'[3]).val ELSE 0
        IN /\ failed_tests' = failed_tests
           /\ DOMAIN variables' = DOMAIN variables \cup {name}
           /\ variables'[name] = v
           /\ \A k \in DOMAIN variables \ {name} : variables'[k] = variables[k]
           /\ pc' = "loop"

\* C13: DEF_VAR of a `$`-name records no error and binds the name to the
\* initial value given, or to 0.0 when none is given, whether or not the
\* name was bound before and whatever its value was; no other variable
\* changes.
C13_DefVarOverwrites == [][C13_Step]_vars

\* A DEF_VAR was executed on a name already bound to another value: the new
\* value is bound and no error is recorded.
C13_Witness ==
    /\ pc = "loop"
    /\ VarA \in DOMAIN vars_before
    /\ VarA \in DOMAIN variables
    /\ vars_before[VarA] = 2 * Scale
    /\ variables[VarA] = 0
    /\ failed_tests = <<>>
    /\ line = <<W("DEF_VAR"), VarA>>

\* --------------------------------------------------------------------- C14
\* Line l is a CHECK_RANGE (kw) or CHECK_DIFF whose three arguments have
\* values in vs.
GoodCheck(l, kw, vs) ==
    /\ upper(l[1]) = W(kw)
    /\ Len(l) >= 4
    /\ \A i \in 2..4 : parse_value(vs, l[i]).ok

\* real is within the tolerance of expected: a fraction tol of expected when
\* the tolerance token ends in `%`, else the absolute tolerance tol.
WithinTolerance(real, expected, tol, percent) ==
    IF percent
    THEN /\ expected * (Scale - tol) <= real * Scale
         /\ real * Scale <= expected * (Scale + tol)
    ELSE expected - tol <= real /\ real <= expected + tol

C14_Step ==
    (DispatchStep /\ GoodCheck(line', "CHECK_RANGE", variables)) =>
        LET real == parse_value(variables, line'[2]).val
            expected == parse_value(variables, line'[3]).val
            tol == parse_value(variables, line'[4]).val
            percent == endswith(line'[4], "%")
            passes == WithinTolerance(real, expected, tol, percent)
        IN /\ pc' = "loop"
           /\ failed_tests' = failed_tests <=> passes
           /\ CaseOpen =>
                 LET c == current_test_data[1]
                     d == current_test_data'[1]
                 IN /\ Truthy(current_test_data')
                    /\ d.result = (IF passes THEN c.result ELSE "FAIL")
                    /\ Len(d.expected) = Len(c.expected) + 1
                    /\ Len(d.actual) = Len(c.actual) + 1
                    /\ d.actual[Len(d.actual)] = real
                    /\ LET row == d.expected[Len(d.expected)] IN
                       /\ row[1] = "range"
                       /\ IF percent
                          THEN /\ row[2] * Scale = expected * (Scale - tol)
                               /\ row[3] * Scale = expected * (Scale + tol)
                          ELSE /\ row[2] = expected - tol
                               /\ row[3] = expected + tol

\* C14: a CHECK_RANGE whose arguments have values records a failure if and
\* only if the real value is outside expected*(1-tol) .. expected*(1+tol)
\* (tolerance ending in `%`) or expected-tol .. expected+tol (otherwise); it
\* never raises; a value out of range makes the open case FAIL; in both
\* outcomes the range and the actual value are appended to the open case.
C14_CheckRange == [][C14_Step]_vars

\* CHECK_RANGE 1 2 50% was executed in an open case: 1 is the lower end of
\* the range 1 .. 3, the check passed and its row is recorded.
C14_Witness ==
    /\ pc = "loop"
    /\ line = <<W("CHECK_RANGE"), One, Two, Pct50>>
    /\ CaseOpen
    /\ current_test_data[1].result = "PASS"
    /\ current_test_data[1].expected = <<<<"range", 1 * Scale, 3 * Scale>>>>
    /\ current_test_data[1].actual = <<1 * Scale>>

\* --------------------------------------------------------------------- C15
\* Case c has the row of a CHECK_DIFF whose difference is over its limit.
HasFailedDiff(c) ==
    \E i \in DOMAIN c.expected :
        c.expected[i][1] = "diff" /\ c.actual[i] > c.expected[i][2]

C15_Step ==
    /\ (DispatchStep /\ GoodCheck(line', "CHECK_DIFF", variables)) =>
          LET a == parse_value(variables, line'[2]).val
              b == parse_value(variables, line'[3]).val
              maxdiff == parse_value(variables, line'[4]).val
              distance == IF a >= b THEN a - b ELSE b - a
              passes == distance <= maxdiff
          IN /\ pc' = "loop"
             /\ failed_tests' = failed_tests <=> passes
             /\ CaseOpen =>
                   LET c == current_test_data[1]
                       d == current_test_data'[1]
                   IN /\ Truthy(current_test_data')
                      /\ d.result = (IF passes THEN c.result ELSE "FAIL")
                      /\ d.expected = Append(c.expected, <<"diff", maxdiff>>)
                      /\ d.actual = Append(c.actual, distance)
    /\ (/\ DispatchStep
        /\ GoodCheck(line', "CHECK_RANGE", variables)
        /\ CaseOpen
        /\ HasFailedDiff(current_test_data[1])) =>
          LET c == current_test_data[1]
              d == current_test_data'[1]
          IN /\ Len(opened') = Len(opened)
             /\ Truthy(current_test_data')
             /\ d.result = "FAIL"
             /\ Len(d.expected) = Len(c.expected) + 1
             /\ d.expected[Len(d.expected)][1] = "range"
             /\ d.actual = Append(c.actual, parse_value(variables, line'[2]).val)
             /\ pc' = "loop"

\* C15: a CHECK_DIFF whose arguments have values records a failure if and
\* only if |a-b| > maxdiff, and then makes the open case FAIL; a CHECK_RANGE
\* executed later in a case that has a failed CHECK_DIFF still appends its
\* row to that case, which stays FAIL, and the run loop goes on.
C15_CheckDiff == [][C15_Step]_vars

\* CHECK_DIFF 2 1 0 failed in the open case and the CHECK_RANGE after it was
\* executed: the case is FAIL and holds both rows.
C15_Witness ==
    /\ pc = "loop"
    /\ CaseOpen
    /\ current_test_data[1].result = "FAIL"
    /\ Len(current_test_data[1].expected) = 2
    /\ current_test_data[1].expected[1] = <<"diff", 0>>
    /\ current_test_data[1].actual[1] = 1 * Scale
    /\ current_test_data[1].expected[2][1] = "range"
    /\ upper(line[1]) = W("CHECK_RANGE")

\* --------------------------------------------------------------------- C16
\* The interrupt has propagated to run(): its except clause is entered or done.
InterruptPropagated == exc = "KeyboardInterrupt"

\* The child of the emergency power-off call, started by run()'s except clause.
EmergencyChild == pc = "comm" /\ frame.h = "EMERGENCY"

\* C16: an interrupt that arrives while run_external_tool waits for its child
\* has the child killed before it propagates: while the except clause of
\* run_external_tool runs, the interrupt has not reached run() and no
\* emergency power-off has started; once the interrupt has reached run(), the
\* only child that can be running is the one of the emergency power-off.
C16_ChildKilledFirst ==
    /\ pc = "kill" =>
          /\ child = "running"
          /\ ~InterruptPropagated
          /\ \A i \in DOMAIN events :
                events[i] \notin {"KeyboardInterrupt", "cmd_power_off"}
    /\ (InterruptPropagated /\ child = "running") => EmergencyChild
    /\ (/\ InterruptPropagated
        /\ calls # <<>>
        /\ calls[Len(calls)].status = "killed") => child = "killed"

\* The interrupt arrived during the wait for a child and has reached run():
\* the child was killed, the emergency power-off has not started yet.
C16_Witness ==
    /\ pc = "except"
    /\ InterruptPropagated
    /\ child = "killed"
    /\ calls # <<>>
    /\ calls[Len(calls)].status = "killed"

\* --------------------------------------------------------------------- C17
\* This step is run_external_tool failing: the pending invocation ends with a
\* non-zero return code, or its child could not be started.
ToolFailure ==
    /\ pc \in {"popen", "comm"}
    /\ calls # <<>>
    /\ Len(calls') = Len(calls)
    /\ calls[Len(calls)].status = "pending"
    /\ calls'[Len(calls)].status \in {"failed", "spawn_failed"}

C17_Step ==
    ToolFailure =>
       /\ calls'[Len(calls)].out = None
       /\ variables' = variables
       /\ failed_tests' =
             Append(failed_tests, FailedEntry(current_test_id, current_test_title))
       /\ CaseOpen =>
             /\ Truthy(current_test_data')
             /\ current_test_data'[1].result = "FAIL"
             /\ \E i \in DOMAIN current_test_data'[1].note :
                   /\ current_test_data'[1].note[i].kind =
                         (IF calls'[Len(calls)].status = "failed"
                          THEN "tool failed" ELSE "system exception")
                   /\ current_test_data'[1].note[i].toks = frame.desc
       /\ IF frame.h = "EMERGENCY"
          THEN /\ pc' = "exit"
               /\ exit_status' \in {ExitInterrupt, ExitCrash}
               /\ report' = render(test_results')
          ELSE /\ pc' = (IF frame.h = "POWER_CYCLE_OFF" THEN "sleep" ELSE "loop")
               /\ exit_status' = exit_status

\* C17: every external tool invocation that fails (non-zero return code, or
\* the child cannot be started) is recorded: it yields None and no variable
\* changes, an entry is added to failed_tests, the open case (if any) becomes
\* FAIL with a note that names the step, and the run goes on: the handler
\* returns to the run loop (POWER_CYCLE to its delay), the emergency
\* power-off to the report and the planned exit status.
C17_ToolFailureRecorded == [][C17_Step]_vars

\* READ CH4 TO $a failed in an open case: the case is FAIL with the note of
\* the read step, $a has the value it had, the run loop goes on.
C17_Witness ==
    /\ pc = "loop"
    /\ calls # <<>>
    /\ calls[Len(calls)].status = "failed"
    /\ CaseOpen
    /\ current_test_data[1].result = "FAIL"
    /\ \E i \in DOMAIN current_test_data[1].note :
          current_test_data[1].note[i].kind = "tool failed"
    /\ variables # <<>>
    /\ variables = vars_before
    /\ line = <<W("READ"), CH4, TO, VarA>>

\* --------------------------------------------------------------------- C18
\* An error is recorded by this step: failed_tests grows, the open case (if
\* any) is FAIL afterwards.
ErrorRecorded ==
    /\ Len(failed_tests') = Len(failed_tests) + 1
    /\ CaseOpen => (Truthy(current_test_data') /\ current_test_data'[1].result = "FAIL")

\* This step is cmd_read going on after run_external_tool has returned.
ReadReturns ==
    /\ pc \in {"popen", "comm"}
    /\ frame.h = "READ"
    /\ pc' = "loop"

C18_Step ==
    /\ (DispatchStep /\ upper(line'[1]) = W("READ")) =>
          IF cmd_read_error(R, Tail(line')) # <<>>
          THEN /\ calls' = <<>>
               /\ pc' = "loop"
               /\ variables' = variables
               /\ ErrorRecorded
          ELSE /\ pc' = "popen"
               /\ Len(calls') = 1
               /\ variables' = variables
    /\ ReadReturns =>
          LET c == calls'[Len(calls')]
          IN IF c.status = "ok" /\ float(c.out).ok
             THEN /\ variables' = Put(variables, frame.arg, float(c.out).val)
                  /\ failed_tests' = failed_tests
             ELSE /\ variables' = variables
                  /\ ErrorRecorded

\* C18: READ channel TO $var stores the tool's value in $var only when the
\* tool succeeds and prints a parseable number; in every other case (bad
\* format, undefined variable, tool failure, empty or unparseable output) an
\* error is recorded and $var keeps its value, and with a bad format or an
\* undefined variable the scope tool is not called.
C18_ReadStoresOrRecords == [][C18_Step]_vars

\* --------------------------------------------------------------------- C19
\* How many finalized cases have result res.
CountResult(res) ==
    Cardinality({i \in DOMAIN test_results : test_results[i].result = res})

\* C19: when the run has ended, by the end of the script, an interrupt or a
\* crash, a report exists if and only if a case was opened, and on each of
\* these paths generate_report was called; a report that exists has overall
\* FAIL if and only if some finalized case is FAIL, and its passed and failed
\* counts are those of the finalized list and add up to its length.
C19_ReportOnEveryExit ==
    Finished =>
        /\ report # <<>> <=> opened # <<>>
        /\ cause # "missing_file" =>
              \E i \in DOMAIN events : events[i] = "generate_report"
        /\ report # <<>> =>
              /\ report[1].overall = "FAIL" <=> SomeCaseFailed
              /\ report[1].overall \in {"PASS", "FAIL"}
              /\ report[1].passed = CountResult("PASS")
              /\ report[1].failed = CountResult("FAIL")
              /\ report[1].passed + report[1].failed = Len(test_results)
              /\ report[1].total = Len(test_results)

\* An interrupted run with two cases, one PASS and one FAIL: the report was
\* generated and its overall result is FAIL.
C19_Witness ==
    /\ Finished
    /\ cause = "interrupt"
    /\ Len(opened) = 2
    /\ report # <<>>
    /\ report[1].overall = "FAIL"
    /\ report[1].passed = 1
    /\ report[1].failed = 1

\* --------------------------------------------------------------------- C20
\* s without its last n characters.
DropLast(s, n) == SubSeq(s, 1, Len(s) - n)

\* s ends with the unit mA.
EndsWithMilliAmp(s) == Len(s) >= 2 /\ s[Len(s) - 1] = "m" /\ s[Len(s)] = "A"

\* This step is DEF_VAR name token, name having its `$`.
ParseStep ==
    /\ DispatchStep
    /\ upper(line'[1]) = W("DEF_VAR")
    /\ Len(line') = 3
    /\ startswith(line'[2], "$")

\* The step binds name to v and records no error.
Stored(name, v) == variables' = Put(variables, name, v) /\ failed_tests' = failed_tests

\* The step binds name to the value that, multiplied by factor, is v.
StoredScaled(name, v, factor) ==
    /\ name \in DOMAIN variables'
    /\ variables'[name] * factor = v
    /\ Stored(name, variables'[name])

\* The step records an error and binds nothing.
Rejected == variables' = variables /\ Len(failed_tests') = Len(failed_tests) + 1

C20_Step ==
    ParseStep =>
       LET name == line'[2]
           tok == line'[3]
           plain == ~startswith(tok, "$")
       IN /\ startswith(tok, "$") =>
                IF tok \in DOMAIN variables
                THEN Stored(name, variables[tok])
                ELSE Rejected
          /\ (plain /\ endswith(tok, "%")) =>
                IF float(DropLast(tok, 1)).ok
                THEN StoredScaled(name, float(DropLast(tok, 1)).val, 100)
                ELSE Rejected
          /\ (plain /\ EndsWithMilliAmp(tok) /\ float(DropLast(tok, 2)).ok) =>
                StoredScaled(name, float(DropLast(tok, 2)).val, 1000)
          /\ (plain /\ endswith(tok, "A") /\ float(DropLast(tok, 1)).ok) =>
                Stored(name, float(DropLast(tok, 1)).val)
          /\ (plain /\ float(tok).ok) => Stored(name, float(tok).val)

\* C20: the value parser takes the first rule that matches, in the order `$`
\* prefix, `%` suffix, mA, A, plain number.  A `$` token is looked up in the
\* variable store, whatever follows the `$`, and is an error when it is not
\* bound; a token that ends with `%` is its literal divided by 100, and an
\* error when what precedes the `%` is no literal, unit markers included; a
\* literal followed by mA is the literal divided by 1000, a literal followed
\* by A is the literal, a literal alone is the literal.
C20_ParseOrder == [][C20_Step]_vars

\* DEF_VAR $b 2560mA has bound $b to 2.56.
C20_Witness ==
    /\ pc = "loop"
    /\ line = <<W("DEF_VAR"), VarB, <<"2", "5", "6", "0", "m", "A">>>>
    /\ VarB \in DOMAIN variables
    /\ variables[VarB] * 100 = 256 * Scale
    /\ failed_tests = <<>>

\* --------------------------------------------------------------------- C21
\* The run is of the scenario's script.
RunsScenario == script = <<ScenarioScript>>

\* C21: the script DEF_VAR $v / TEST T1 "t" / SET_VAR $v 10 /
\* CHECK_RANGE $v 10 1%, run to its end, leaves exactly one finalized case:
\* id T1, title t, result PASS, one expected/actual pair, the range from 9.9
\* to 10.1 and the value 10.0000; no failure is recorded, the report says
\* PASS and the exit status is 0.
C21_Scenario ==
    (RunsScenario /\ Finished /\ cause # "missing_file") =>
        /\ cause = "none"
        /\ nlines = Len(ScenarioScript)
        /\ test_results =
              <<[id |-> T1, title |-> <<"t">>, result |-> "PASS",
                 expected |-> <<<<"range", 99000, 101000>>>>,
                 actual |-> <<10 * Scale>>, note |-> <<>>]>>
        /\ failed_tests = <<>>
        /\ report # <<>>
        /\ report[1].overall = "PASS"
        /\ report[1].total = 1
        /\ exit_status = ExitPass
        /\ exit_status = 0

\* The scenario's script has run to its end.
C21_Witness ==
    /\ RunsScenario
    /\ Finished
    /\ cause = "none"
    /\ nlines = 4
    /\ line = <<W("CHECK_RANGE"), VarV, Ten, Pct1>>

\* --------------------------------------------------------------------- C22
\* Invocation c is of the power tool with output state st.
PowerState(c, st) ==
    /\ c.tool = "power_ctrl"
    /\ \E i \in 1..(Len(c.argv) - 1) : c.argv[i] = W("-o") /\ c.argv[i + 1] = W(st)

\* Invocation c carries no voltage and no current argument.
NoSetpoints(c) == W("-v") \notin Range(c.argv) /\ W("-c") \notin Range(c.argv)

\* The i-th invocation of the line ends in this step, other than by an interrupt.
CallEnds(i) ==
    /\ Len(calls) = i
    /\ Len(calls') = i
    /\ calls[i].status = "pending"
    /\ calls'[i].status \in {"ok", "failed", "spawn_failed"}

\* The failure of the i-th invocation is recorded, against the open case if any.
CallFailureRecorded(i) ==
    calls'[i].status # "ok" =>
        /\ Len(failed_tests') = Len(failed_tests) + 1
        /\ CaseOpen =>
              /\ Truthy(current_test_data')
              /\ current_test_data'[1].result = "FAIL"
              /\ \E k \in DOMAIN current_test_data'[1].note :
                    current_test_data'[1].note[k].toks = frame.desc

C22_Step ==
    /\ (DispatchStep /\ upper(line'[1]) = W("POWER_CYCLE")) =>
          /\ Len(calls') = 1
          /\ PowerState(calls'[1], "off")
          /\ calls'[1].status = "pending"
          /\ pc' = "popen"
    /\ (frame.h = "POWER_CYCLE_OFF" /\ CallEnds(1)) =>
          /\ pc' = "sleep"
          /\ CallFailureRecorded(1)
    /\ (pc = "sleep" /\ frame.h = "POWER_CYCLE" /\ pc' # "except") =>
          /\ Len(calls) = 1
          /\ Len(calls') = 2
          /\ calls'[1] = calls[1]
          /\ PowerState(calls'[2], "on")
          /\ NoSetpoints(calls'[2])
          /\ calls'[2].status = "pending"
          /\ pc' = "popen"
    /\ (frame.h = "POWER_CYCLE_ON" /\ CallEnds(2)) =>
          /\ pc' = "loop"
          /\ calls'[1] = calls[1]
          /\ CallFailureRecorded(2)

\* POWER_CYCLE is done and the run loop goes on.
PowerCycleDone == pc = "loop" /\ line # <<>> /\ upper(line[1]) = W("POWER_CYCLE")

\* C22: POWER_CYCLE invokes the power tool exactly twice: first with the
\* off state; then, after the pause, with the on state and no voltage or
\* current argument, whether the off-state invocation succeeded or failed;
\* the failure of either is recorded, against the open case if there is one.
C22_PowerCycle ==
    /\ [](PowerCycleDone =>
             /\ Len(calls) = 2
             /\ PowerState(calls[1], "off")
             /\ PowerState(calls[2], "on")
             /\ NoSetpoints(calls[2])
             /\ calls[1].status \in {"ok", "failed", "spawn_failed"}
             /\ calls[2].status \in {"ok", "failed", "spawn_failed"})
    /\ [][C22_Step]_vars

\* POWER_CYCLE in an open case, its off-state invocation failed: the
\* on-state invocation was made all the same and the case is FAIL.
C22_Witness ==
    /\ PowerCycleDone
    /\ Len(calls) = 2
    /\ calls[1].status = "failed"
    /\ calls[2].status = "ok"
    /\ CaseOpen
    /\ current_test_data[1].result = "FAIL"

\* --------------------------------------------------------------------- C23
\* The key a CONFIG token stands for: the token in upper case.
CanonicalKey(tok) ==
    CASE tok \in {W("power_addr"), W("POWER_ADDR")} -> W("POWER_ADDR")
      [] tok \in {W("res_port"), W("RES_PORT")} -> W("RES_PORT")
      [] OTHER -> tok

\* The configuration key and the option of the endpoint of a tool.
EndpointKey(tool) ==
    CASE tool = "power_ctrl" -> W("POWER_ADDR")
      [] tool = "res_ctrl" -> W("RES_PORT")
      [] tool = "yokogawa" -> W("SCOPE_IP")

EndpointFlag(tool) ==
    CASE tool = "power_ctrl" -> W("-a")
      [] tool = "res_ctrl" -> W("-p")
      [] tool = "yokogawa" -> W("--ip")

\* Invocation c carries the endpoint option once, with the configured
\* value, or not at all when the key is not set.
EndpointCarried(c) ==
    LET at == {i \in DOMAIN c.argv : c.argv[i] = EndpointFlag(c.tool)}
        value == config[EndpointKey(c.tool)]
    IN IF value = None THEN at = {}
       ELSE /\ Cardinality(at) = 1
            /\ \A i \in at : i = Len(c.argv) - 1 /\ c.argv[i + 1] = value

C23_Step ==
    IF DispatchStep /\ upper(line'[1]) = W("CONFIG")
    THEN /\ pc' = "loop"
         /\ calls' = <<>>
         /\ variables' = variables
         /\ test_results' = test_results
         /\ IF Len(line') >= 3
            THEN /\ DOMAIN config' = DOMAIN config \cup {CanonicalKey(line'[2])}
                 /\ \A k \in DOMAIN config' :
                       config'[k] = IF k = CanonicalKey(line'[2]) THEN line'[3]
                                    ELSE config[k]
                 /\ failed_tests' = failed_tests
                 /\ current_test_data' = current_test_data
            ELSE /\ config' = config
                 /\ Len(failed_tests') = Len(failed_tests) + 1
                 /\ CaseOpen =>
                       /\ Truthy(current_test_data')
                       /\ current_test_data'[1].result = "FAIL"
    ELSE config' = config

\* C23: CONFIG key value binds the upper-cased key to the value, known key
\* or not, the last write replacing the earlier one, and changes nothing
\* else; with fewer than two arguments it records an error and leaves the
\* configuration as it is; no other step changes the configuration.  Every
\* tool invocation carries the endpoint option of its instrument with the
\* value the configuration holds, and no such option when the key is unset.
C23_Config ==
    /\ [](\A i \in DOMAIN calls : EndpointCarried(calls[i]))
    /\ [][C23_Step]_vars

\* POWER_ADDR is configured as A2 and POWER_OFF, the third line of the
\* script, invokes the power tool with that address.
C23_Witness ==
    /\ nlines = 3
    /\ line = <<W("POWER_OFF")>>
    /\ config[W("POWER_ADDR")] = W("A2")
    /\ Len(calls) = 1
    /\ calls[1].argv = <<W("-o"), W("off"), W("-a"), W("A2")>>

\* --------------------------------------------------------------------- C24
\* The expected and actual lists of case c.
Rows(c) == <<c.expected, c.actual>>

\* Lists b are lists a with one entry more each.
OneRowMore(a, b) ==
    /\ Len(b[1]) = Len(a[1]) + 1
    /\ Len(b[2]) = Len(a[2]) + 1
    /\ SubSeq(b[1], 1, Len(a[1])) = a[1]
    /\ SubSeq(b[2], 1, Len(a[2])) = a[2]

\* This step dispatches a CHECK_RANGE or CHECK_DIFF whose tokens all parse.
GoodCheckStep ==
    /\ DispatchStep
    /\ \/ GoodCheck(line', "CHECK_RANGE", variables)
       \/ GoodCheck(line', "CHECK_DIFF", variables)

\* This step dispatches a TEST that opens a case.
OpensCase == DispatchStep /\ Len(opened') = Len(opened) + 1

C24_Step ==
    /\ \A i \in DOMAIN test_results :
          /\ i \in DOMAIN test_results'
          /\ IF GoodCheckStep /\ CaseOpen /\ shared /\ i = Len(test_results)
             THEN OneRowMore(Rows(test_results[i]), Rows(test_results'[i]))
             ELSE Rows(test_results'[i]) = Rows(test_results[i])
    /\ \A i \in DOMAIN test_results' :
          i \notin DOMAIN test_results =>
             CaseOpen /\ Rows(test_results'[i]) = Rows(current_test_data[1])
    /\ Truthy(current_test_data') =>
          IF OpensCase THEN Rows(current_test_data'[1]) = << <<>>, <<>> >>
          ELSE /\ CaseOpen
               /\ IF GoodCheckStep
                  THEN OneRowMore(Rows(current_test_data[1]), Rows(current_test_data'[1]))
                  ELSE Rows(current_test_data'[1]) = Rows(current_test_data[1])

\* Every case, open or finalized, has as many expected as actual entries.
RowsPaired ==
    /\ \A i \in DOMAIN test_results :
          Len(test_results[i].expected) = Len(test_results[i].actual)
    /\ CaseOpen => Len(current_test_data[1].expected) = Len(current_test_data[1].actual)
    /\ report # <<>> =>
          \A i \in DOMAIN report[1].rows :
             Len(report[1].rows[i].expected) = Len(report[1].rows[i].actual)

SelfCheckStep ==
    /\ DispatchStep
    /\ GoodCheck(line', "CHECK_RANGE", variables)
    /\ parse_value(variables, line'[2]).val = parse_value(variables, line'[3]).val
    /\ parse_value(variables, line'[4]).val >= 0

C25_Step ==
    SelfCheckStep =>
       /\ failed_tests' = failed_tests
       /\ CaseOpen =>
             /\ Truthy(current_test_data')
             /\ current_test_data'[1].result = current_test_data[1].result
             /\ current_test_data'[1].note = current_test_data[1].note

\* C25: a CHECK_RANGE whose actual value equals its expected value passes,
\* whatever the expected value (negative, zero or positive) and whatever the
\* tolerance, absolute or percent, as long as it is not negative: no failure
\* is recorded and the open case keeps its result.
C25_EqualValuePasses == [][C25_Step]_vars

\* --------------------------------------------------------------------- C26
\* The finalized cases whose result is FAIL.
FailedCases == {i \in DOMAIN test_results : test_results[i].result = "FAIL"}

\* The entries of failed_tests that name finalized case i.
EntriesOf(i) ==
    {k \in DOMAIN failed_tests :
        failed_tests[k] = FailedEntry(test_results[i].id, test_results[i].title)}

\* C26: at the end of the script failed_tests, the list that is printed and
\* counted, has exactly one entry for each finalized case that is FAIL, and
\* no other entry: a case with several errors is listed once.
C26_FailedListExact ==
    NormalEnd =>
        /\ Len(failed_tests) = Cardinality(FailedCases)
        /\ \A i \in FailedCases : Cardinality(EntriesOf(i)) = 1
        /\ \A k \in DOMAIN failed_tests : \E i \in FailedCases : k \in EntriesOf(i)

\* --------------------------------------------------------------------- C27
\* main() is inside its test loop.
InSweepLoop ==
    sw_pc \in {"for_cfg", "for_point", "res_set", "power_off", "sleep_off", "power_on",
               "sleep_on", "measure"}

\* main() has ended, normally or with the exception that left the try block.
SweepEnded == sw_pc \in {"end", "raised"}

\* The finally block invoked the power tool with the off state and then the
\* resistance tool with OPEN.
CleanupDone ==
    /\ Len(sw_cleanup) = 2
    /\ SubSeq(sw_cleanup[1], 1, 2) = <<"power", "off">>
    /\ SubSeq(sw_cleanup[2], 1, 2) = <<"res", "OPEN">>

C27_Step ==
    /\ (InSweepLoop /\ ~InSweepLoop') =>
          /\ sw_pc' = "cleanup_power"
          /\ sw_left' \in {"done", "break", "interrupt", "exception"}
          /\ sw_cleanup' = <<>>
    /\ sw_pc = "cleanup_power" =>
          /\ sw_pc' = "cleanup_res"
          /\ Len(sw_cleanup') = 1
          /\ SubSeq(sw_cleanup'[1], 1, 2) = <<"power", "off">>
    /\ sw_pc = "cleanup_res" =>
          /\ SweepEnded'
          /\ CleanupDone'

\* C27: once main() is in its test loop, every way of leaving the loop (all
\* points done, a break after a failed resistance-set or power-on, the
\* operator's interrupt, an exception) leads to the cleanup, and the run
\* ends only after the power tool was invoked with the off state and then
\* the resistance tool with OPEN; the resistance tool is invoked however the
\* power-off invocation ended.
C27_SweepCleanup ==
    /\ [](SweepEnded => sw_left # "no" /\ CleanupDone)
    /\ [][C27_Step]_vars
    /\ (InSweepLoop ~> (SweepEnded /\ CleanupDone))

\* The operator interrupted the loop, the power-off invocation of the
\* cleanup failed, and the resistance tool was invoked with OPEN.
C27_Witness ==
    /\ sw_pc = "end"
    /\ sw_left = "interrupt"
    /\ Len(sw_cleanup) = 2
    /\ sw_cleanup[1] = <<"power", "off", "failed">>
    /\ sw_cleanup[2] = <<"res", "OPEN", "ok">>

\* --------------------------------------------------------------------- C28
\* C28: no row of a point whose measurement failed (measure_scope_current
\* returned None) has Result PASS, whatever the expected current and the
\* tolerance.
C28_FailedMeasureNeverPasses ==
    \A i \in DOMAIN sw_results : ~sw_measured[i] => sw_results[i].Result # "PASS"

====
